---- MODULE Spec2Model ----
(***************************************************************************)
(* A model of the NASL interpreter of openvas-scanner: the value model,    *)
(* the register, Interpreter::resolve, the assignment extension and the    *)
(* operator extension.                                                     *)
(*                                                                         *)
(* Numbers are i64.  TLC's integers are 32 bits wide, so an i64 is kept as *)
(* four 16-bit limbs, least significant limb first, in two's complement:   *)
(* 12 is <<12,0,0,0>> and -2 is <<65534,65535,65535,65535>>.               *)
(***************************************************************************)
EXTENDS Integers, Sequences, FiniteSets, TLC

\* ------------------------------------------------------------------ i64

W == 2^16

I64_ZERO == <<0, 0, 0, 0>>
I64_ONE == <<1, 0, 0, 0>>
I64_MAX == <<65535, 65535, 65535, 32767>>
I64_MIN == <<0, 0, 0, 32768>>
I64_MINUS_ONE == <<65535, 65535, 65535, 65535>>

\* The limbs of a natural number below 2^31.
NatLimbs(n) == <<n % W, n \div W, 0, 0>>

IsNeg(x) == x[4] >= 32768

NotW(x) == [i \in 1..4 |-> 65535 - x[i]]

\* x + y + cin on 64 bits: the low 64 bits v and the carry out c.
AddW(x, y, cin) ==
  LET s1 == x[1] + y[1] + cin
      s2 == x[2] + y[2] + (s1 \div W)
      s3 == x[3] + y[3] + (s2 \div W)
      s4 == x[4] + y[4] + (s3 \div W)
  IN  [v |-> <<s1 % W, s2 % W, s3 % W, s4 % W>>, c |-> s4 \div W]

WrappingNeg(x) == AddW(I64_ZERO, NotW(x), 1).v

\* The i64 of a TLC integer (|n| < 2^31).
I64(n) == IF n >= 0 THEN NatLimbs(n) ELSE WrappingNeg(NatLimbs(-n))

\* Signed addition: the wrapped sum and whether it overflowed.
I64Add(x, y) ==
  LET r == AddW(x, y, 0).v
  IN  [v |-> r, ovf |-> IsNeg(x) = IsNeg(y) /\ IsNeg(r) # IsNeg(x)]

\* Signed subtraction.
I64Sub(x, y) ==
  LET r == AddW(x, NotW(y), 1).v
  IN  [v |-> r, ovf |-> IsNeg(x) # IsNeg(y) /\ IsNeg(r) # IsNeg(x)]

\* Signed negation (-x): overflows on i64::MIN only.
I64Neg(x) == [v |-> WrappingNeg(x), ovf |-> x = I64_MIN]

\* Unsigned comparison of two limb sequences of the same length.
RECURSIVE ULess(_, _, _)
ULess(x, y, i) ==
  IF i = 0 THEN FALSE
  ELSE IF x[i] # y[i] THEN x[i] < y[i]
  ELSE ULess(x, y, i - 1)

\* Signed x < y.
I64Less(x, y) ==
  IF IsNeg(x) # IsNeg(y) THEN IsNeg(x) ELSE ULess(x, y, 4)

\* The magnitude of x as an unsigned 64-bit number.
Magnitude(x) == IF IsNeg(x) THEN WrappingNeg(x) ELSE x

\* The product of two 16-bit limbs as <<low limb, high limb>>.
MulLimb(a, b) ==
  LET t == a * (b \div 256)
      low == a * (b % 256) + (t % 256) * 256
  IN  <<low % W, (t \div 256) + (low \div W)>>

LimbAt(x, i) == IF i >= 1 /\ i <= Len(x) THEN x[i] ELSE 0

\* Column k (from 0) of the schoolbook product of x and y, without carry.
ColSum(x, y, k) ==
  LET T(i) == IF k - i >= 0 /\ k - i <= 3
              THEN MulLimb(x[i + 1], y[k - i + 1])[1] ELSE 0
      H(i) == IF k - 1 - i >= 0 /\ k - 1 - i <= 3
              THEN MulLimb(x[i + 1], y[k - i])[2] ELSE 0
  IN  T(0) + T(1) + T(2) + T(3) + H(0) + H(1) + H(2) + H(3)

RECURSIVE MulCols(_, _, _, _)
MulCols(x, y, k, carry) ==
  IF k = 8 THEN <<>>
  ELSE LET c == ColSum(x, y, k) + carry
       IN  <<c % W>> \o MulCols(x, y, k + 1, c \div W)

\* The full 128-bit product of two unsigned 64-bit numbers, as 8 limbs.
UMulWide(x, y) == MulCols(x, y, 0, 0)

\* Signed multiplication: the wrapped product and whether it overflowed.
\* The signed product from the 128-bit product p of the magnitudes.
SignedProduct(neg, p) ==
  LET low == SubSeq(p, 1, 4)
      fits == /\ SubSeq(p, 5, 8) = I64_ZERO
              /\ \/ ~IsNeg(low)
                 \/ neg /\ low = I64_MIN
  IN  [v |-> IF neg THEN WrappingNeg(low) ELSE low, ovf |-> ~fits]

I64Mul(x, y) ==
  SignedProduct(IsNeg(x) # IsNeg(y), UMulWide(Magnitude(x), Magnitude(y)))

\* Bit i (from 0) of x.
BitOf(x, i) == (x[(i \div 16) + 1] \div (2^(i % 16))) % 2

\* x with bit i (from 0) set, when it is clear.
SetBit(x, i) == [x EXCEPT ![(i \div 16) + 1] = @ + 2^(i % 16)]

\* Unsigned long division: cnt steps from bit i downwards on the state
\* st = [q |-> quotient so far, r |-> remainder so far].  The state is
\* evaluated on entry (Len(st.r) is 4), so that no step waits on an earlier one.
RECURSIVE UDivStep(_, _, _, _, _)
RECURSIVE UDivSubtract(_, _, _, _, _, _)
UDivStep(n, d, i, cnt, st) ==
  IF cnt = 0 \/ Len(st.r) = 0 THEN st
  ELSE UDivSubtract(n, d, i, cnt, st.q, AddW(st.r, st.r, BitOf(n, i)))

\* One step, s the remainder shifted left with the next bit of n shifted in.
UDivSubtract(n, d, i, cnt, q, s) ==
  IF s.c = 1 \/ ~ULess(s.v, d, 4)
  THEN UDivStep(n, d, i - 1, cnt - 1,
                [q |-> SetBit(q, i), r |-> AddW(s.v, NotW(d), 1).v])
  ELSE UDivStep(n, d, i - 1, cnt - 1, [q |-> q, r |-> s.v])

\* The limbs x hold a value below 2^30.
FitsNative(x) == x[3] = 0 /\ x[4] = 0 /\ x[2] < 2^14

\* The value of limbs that fit.
NativeOf(x) == x[1] + W * x[2]

\* The state of the long division of n by d once the bits from 63 down to
\* `low` are done, byte by byte from the top.
RECURSIVE UDivDownTo(_, _, _)
UDivDownTo(n, d, low) ==
  IF low > 63 THEN [q |-> I64_ZERO, r |-> I64_ZERO]
  ELSE UDivStep(n, d, low + 7, 8, UDivDownTo(n, d, low + 8))

\* Unsigned quotient and remainder, d not zero; operands below 2^30 divide
\* directly.
UDivRem(n, d) ==
  IF FitsNative(n) /\ FitsNative(d)
  THEN [q |-> NatLimbs(NativeOf(n) \div NativeOf(d)),
        r |-> NatLimbs(NativeOf(n) % NativeOf(d))]
  ELSE UDivDownTo(n, d, 0)

\* The magnitude m with the sign put back.
Signed(neg, m) == IF neg THEN WrappingNeg(m) ELSE m

\* Signed division truncating towards zero.  bad: the divisor is zero or the
\* quotient overflows (i64::MIN / -1): Rust panics there in every build.
I64Div(x, y) ==
  IF y = I64_ZERO \/ (x = I64_MIN /\ y = I64_MINUS_ONE)
  THEN [v |-> I64_ZERO, bad |-> TRUE]
  ELSE [v |-> Signed(IsNeg(x) # IsNeg(y), UDivRem(Magnitude(x), Magnitude(y)).q),
        bad |-> FALSE]

\* Signed remainder: the sign follows the dividend.
I64Rem(x, y) ==
  IF y = I64_ZERO \/ (x = I64_MIN /\ y = I64_MINUS_ONE)
  THEN [v |-> I64_ZERO, bad |-> TRUE]
  ELSE [v |-> Signed(IsNeg(x), UDivRem(Magnitude(x), Magnitude(y)).r),
        bad |-> FALSE]

\* Logical shift of the limbs x left by s bits, 0 <= s < 16 * Len(x).
ShlBits(x, s) ==
  LET q == s \div 16
      r == s % 16
  IN  [k \in 1..Len(x) |->
         ((LimbAt(x, k - q) * (2^r)) % W)
         + (LimbAt(x, k - q - 1) \div (2^(16 - r)))]

\* Logical shift of the limbs x right by s bits, 0 <= s < 16 * Len(x).
ShrBits(x, s) ==
  LET q == s \div 16
      r == s % 16
  IN  [k \in 1..Len(x) |->
         (LimbAt(x, k + q) \div (2^r))
         + ((LimbAt(x, k + q + 1) % (2^r)) * (2^(16 - r)))]

\* Arithmetic shift right of an i64 by s bits, 0 <= s < 64.
SarBits(x, s) ==
  IF IsNeg(x) THEN NotW(ShrBits(NotW(x), s)) ELSE ShrBits(x, s)

\* `x as u32`: the low 32 bits, as two limbs.
AsU32(x) == <<x[1], x[2]>>

\* `u as i64` for a u32: zero extension.
U32AsI64(u) == <<u[1], u[2], 0, 0>>

\* `u as i32` then `as i64`: sign extension from bit 31.
U32AsI32AsI64(u) ==
  IF u[2] >= 32768 THEN <<u[1], u[2], 65535, 65535>> ELSE <<u[1], u[2], 0, 0>>

\* The shift count of a shift by the i64 `s` on a `bits` wide left operand:
\* in range when 0 <= s < bits; a release build masks the count to s mod bits.
ShiftInRange(s, bits) == s[2] = 0 /\ s[3] = 0 /\ s[4] = 0 /\ s[1] < bits
ShiftMasked(s, bits) == s[1] % bits

\* A bitwise operation on two naturals below 2^n.
RECURSIVE BitOp(_, _, _, _)
BitOp(op, a, b, n) ==
  IF n = 0 THEN 0
  ELSE LET x == a % 2
           y == b % 2
           z == CASE op = "and" -> IF x = 1 /\ y = 1 THEN 1 ELSE 0
                  [] op = "or" -> IF x = 1 \/ y = 1 THEN 1 ELSE 0
                  [] op = "xor" -> IF x # y THEN 1 ELSE 0
       IN  z + 2 * BitOp(op, a \div 2, b \div 2, n - 1)

I64Bitwise(op, x, y) == [i \in 1..4 |-> BitOp(op, x[i], y[i], 16)]

\* u32 multiplication: the wrapped product and whether it overflowed.
U32Wrapped(p) == [v |-> <<p[1], p[2]>>, ovf |-> p[3] # 0 \/ p[4] # 0]

U32Mul(a, b) == U32Wrapped(UMulWide(U32AsI64(a), U32AsI64(b)))

U32IsZero(e) == e[1] = 0 /\ e[2] = 0
U32IsOdd(e) == e[1] % 2 = 1
U32Half(e) == ShrBits(e, 1)

\* u32::pow by squaring, as the standard library does it: a round multiplies
\* acc by base when the exponent is odd (a) and squares base (b).  A round's
\* products are evaluated before the next round (Len(..) is 2).
RECURSIVE U32PowLoop(_, _, _, _)
RECURSIVE U32PowRound(_, _, _, _)
U32PowLast(ovf, m) == [v |-> m.v, ovf |-> ovf \/ m.ovf]

U32PowLoop(base, exp, acc, ovf) ==
  IF exp = <<1, 0>> THEN U32PowLast(ovf, U32Mul(acc, base))
  ELSE U32PowRound(exp, ovf,
                   IF U32IsOdd(exp) THEN U32Mul(acc, base)
                   ELSE [v |-> acc, ovf |-> FALSE],
                   U32Mul(base, base))

U32PowRound(exp, ovf, a, b) ==
  IF Len(a.v) = 2 /\ Len(b.v) = 2 /\ (ovf \/ a.ovf \/ b.ovf)
  THEN U32PowLoop(b.v, U32Half(exp), a.v, TRUE)
  ELSE U32PowLoop(b.v, U32Half(exp), a.v, FALSE)

U32Pow(base, exp) ==
  IF U32IsZero(exp) THEN [v |-> <<1, 0>>, ovf |-> FALSE]
  ELSE U32PowLoop(base, exp, <<1, 0>>, FALSE)

\* ----------------------------------------------------------- to_string

Digits == <<"0", "1", "2", "3", "4", "5", "6", "7", "8", "9">>

\* x divided by ten, limb by limb from the top: quotient q and remainder r.
UDiv10(x) ==
  LET c4 == x[4]
      c3 == (c4 % 10) * W + x[3]
      c2 == (c3 % 10) * W + x[2]
      c1 == (c2 % 10) * W + x[1]
  IN  [q |-> <<c1 \div 10, c2 \div 10, c3 \div 10, c4 \div 10>>, r |-> c1 % 10]

RECURSIVE UToString(_)
UToString(x) ==
  LET d == UDiv10(x)
  IN  IF d.q = I64_ZERO THEN Digits[d.r + 1]
      ELSE UToString(d.q) \o Digits[d.r + 1]

\* i64::to_string
I64ToString(x) ==
  IF IsNeg(x) THEN "-" \o UToString(Magnitude(x)) ELSE UToString(x)

\* usize::to_string of a small natural.
RECURSIVE NatToString(_)
NatToString(n) ==
  IF n < 10 THEN Digits[n + 1]
  ELSE NatToString(n \div 10) \o Digits[(n % 10) + 1]

\* --------------------------------------------------------------- values
\* NaslValue (interpreter.rs): a record tagged by t.  The AttackCategory
\* variant is left out: its enum, ACT, is declared outside these sources.

Null == [t |-> "Null"]
Number(n) == [t |-> "Number", n |-> n]
String(s) == [t |-> "String", s |-> s]
Boolean(b) == [t |-> "Boolean", b |-> b]
Array(a) == [t |-> "Array", a |-> a]
Dict(d) == [t |-> "Dict", d |-> d]
ExitValue(rc) == [t |-> "Exit", rc |-> rc]

EmptyDict == [k \in {} |-> Null]

\* The text of NaslValue::Null.to_string(), "\0": one character that occurs in
\* no other string of the model.
NulChar == "^"

\* The keys of a dict in the order its HashMap iterates them.  The order is
\* unspecified in the program; the model takes one fixed order.
RECURSIVE KeyOrder(_)
KeyOrder(ks) ==
  IF ks = {} THEN <<>>
  ELSE LET k == CHOOSE k \in ks : TRUE IN <<k>> \o KeyOrder(ks \ {k})

RECURSIVE JoinComma(_)
JoinComma(parts) ==
  IF Len(parts) = 0 THEN ""
  ELSE IF Len(parts) = 1 THEN parts[1]
  ELSE parts[1] \o "," \o JoinComma(Tail(parts))

\* impl ToString for NaslValue
RECURSIVE to_string(_)
to_string(v) ==
  CASE v.t = "String" -> v.s
    [] v.t = "Number" -> I64ToString(v.n)
    [] v.t = "Array" ->
         JoinComma([i \in 1..Len(v.a) |->
                      NatToString(i - 1) \o ": " \o to_string(v.a[i])])
    [] v.t = "Dict" ->
         LET ks == KeyOrder(DOMAIN v.d)
         IN  JoinComma([i \in 1..Len(ks) |->
                          ks[i] \o ": " \o to_string(v.d[ks[i]])])
    [] v.t = "Boolean" -> IF v.b THEN "true" ELSE "false"
    [] v.t = "Null" -> NulChar
    [] v.t = "Exit" -> "exit(" \o I64ToString(v.rc) \o ")"

\* impl From<NaslValue> for bool
ToBool(v) ==
  CASE v.t = "String" -> v.s # "" /\ v.s # "0"
    [] v.t = "Array" -> Len(v.a) # 0
    [] v.t = "Boolean" -> v.b
    [] v.t = "Null" -> FALSE
    [] v.t = "Number" -> v.n # I64_ZERO
    [] v.t = "Exit" -> v.rc # I64_ZERO
    [] v.t = "Dict" -> DOMAIN v.d # {}

\* impl From<&NaslValue> for i64
ToI64(v) ==
  CASE v.t = "String" -> I64_ONE
    [] v.t = "Number" -> v.n
    [] v.t = "Array" -> I64_ONE
    [] v.t = "Dict" -> I64_ONE
    [] v.t = "Boolean" -> IF v.b THEN I64_ONE ELSE I64_ZERO
    [] v.t = "Null" -> I64_ZERO
    [] v.t = "Exit" -> v.rc

\* Option<T>: None is the empty sequence, Some(x) is <<x>>.
None == <<>>
Some(x) == <<x>>

\* The first position at which pat occurs in s, 0 when it does not.
Find(s, pat) ==
  LET hits == {i \in 1..(Len(s) - Len(pat) + 1) :
                 SubSeq(s, i, i + Len(pat) - 1) = pat}
  IN  IF hits = {} THEN 0 ELSE CHOOSE i \in hits : \A j \in hits : i <= j

\* str::contains
Contains(s, pat) == Find(s, pat) # 0

\* str::replacen(pat, "", 1)
RemoveFirst(s, pat) ==
  LET i == Find(s, pat)
  IN  IF i = 0 THEN s
      ELSE SubSeq(s, 1, i - 1) \o SubSeq(s, i + Len(pat), Len(s))

\* ------------------------------------------------------------- register
\* Register (context.rs is not among the sources; after the specification):
\* a stack of frames, frame 0 the root; a frame maps the names bound in it
\* to slots.

ValueSlot(v) == [c |-> "Value", val |-> v]
FunctionSlot == [c |-> "Function"]

EmptyFrame == [k \in {} |-> FunctionSlot]

\* Register::index_named: the innermost frame binding the name, with its
\* 0-based index, or None.
index_named(reg, key) ==
  LET hits == {i \in 1..Len(reg) : key \in DOMAIN reg[i]}
  IN  IF hits = {} THEN None
      ELSE LET i == CHOOSE i \in hits : \A j \in hits : j <= i
           IN  Some([idx |-> i - 1, slot |-> reg[i][key]])

\* Register::named
named(reg, key) ==
  LET f == index_named(reg, key)
  IN  IF f = None THEN None ELSE Some(f[1].slot)

\* Register::add_to_index: None when there is no frame idx.
add_to_index(reg, idx, key, slot) ==
  IF idx + 1 > Len(reg) THEN None
  ELSE Some([reg EXCEPT ![idx + 1] =
               [k \in (DOMAIN @) \cup {key} |-> IF k = key THEN slot ELSE @[k]]])

\* Register::create_root
create_root(initial) == <<initial>>

\* Register::create_child: push a frame, as a function call does.
create_child(reg, frame) == Append(reg, frame)

\* ---------------------------------------------------------------- state

VARIABLES
  reg,              \* Interpreter::registrat, the register
  overflow_checks,  \* whether the build panics on arithmetic overflow (debug)
  status,           \* "running", or "panicked" once a statement has panicked;
                    \* "tokenizing" when a tokenizer runs instead
  last,             \* the last top-level statement resolved, with its result
  steps,            \* the number of top-level statements resolved so far
  code,             \* Tokenizer::code, the source as a sequence of characters
  cursor,           \* Cursor::len_consumed of Tokenizer::cursor
  calls,            \* the calls of Tokenizer::next that returned a token
  ended,            \* whether Tokenizer::next has returned None
  frame_forgery,    \* the names on which frame_forgery::lookup hits
  packet_forgery,   \* the names on which packet_forgery::lookup hits
  dispatched,       \* the last call on RawIp, with what it invoked and returned
  parsed            \* the last prefix or postfix dispatch of the Lexer, with
                    \* its result

interpreter == <<reg, overflow_checks, status, last, steps>>
tokenizer == <<code, cursor, calls, ended>>
raw_ip == <<frame_forgery, packet_forgery, dispatched>>
lexer == <<parsed>>
vars ==
  <<reg, overflow_checks, status, last, steps, code, cursor, calls, ended,
    frame_forgery, packet_forgery, dispatched, parsed>>

\* A tokenizer over the empty source on which next has not been called.
NoTokenizer == code = <<>> /\ cursor = 0 /\ calls = <<>> /\ ended = FALSE

\* A RawIp without functions that has not been called.
NoRawIp == frame_forgery = {} /\ packet_forgery = {} /\ dispatched = None

\* A Lexer that has parsed nothing.
NoLexer == parsed = None

\* ---------------------------------------------------------- tokens, AST
\* Token: [cat, ...].  An identifier token is IdentifierType::Undefined(id);
\* a keyword token carries its keyword.

NumberToken(n) == [cat |-> "Number", n |-> n]
StringToken(s) == [cat |-> "String", s |-> s]
IdentToken(id) == [cat |-> "Identifier", id |-> id]
KeywordToken(kw) == [cat |-> "Keyword", kw |-> kw]

\* Statement: [k, ...].  An optional child is None or Some(statement).
Primitive(tok) == [k |-> "Primitive", tok |-> tok]
Variable(tok) == [k |-> "Variable", tok |-> tok]
ArrayStmt(tok, pos) == [k |-> "Array", tok |-> tok, pos |-> pos]
Assign(cat, order, left, right) ==
  [k |-> "Assign", cat |-> cat, order |-> order, left |-> left, right |-> right]
Operator(cat, stmts) == [k |-> "Operator", cat |-> cat, stmts |-> stmts]
Block(stmts) == [k |-> "Block", stmts |-> stmts]
Parameter(stmts) == [k |-> "Parameter", stmts |-> stmts]
ExitStmt(stmt) == [k |-> "Exit", stmt |-> stmt]
If(cond, then, else) == [k |-> "If", cond |-> cond, then |-> then, else |-> else]
NoOp == [k |-> "NoOp"]
\* The statements resolve has no implementation for (todo!()).
Unimplemented(kind) == [k |-> kind]

\* InterpretResult, and the panic that unwinds out of resolve.
Ok(v) == [k |-> "Ok", v |-> v]
Err(e) == [k |-> "Err", e |-> e]
Panic(e) == [k |-> "Panic", e |-> e]

\* What a call on the interpreter leaves: the register and the result.
St(r, res) == [reg |-> r, res |-> res]

\* ------------------------------------------------------------ assign.rs

\* An arithmetic result [v, ovf]: a build with overflow checks panics on
\* overflow, one without keeps the wrapped value.
Checked(r) ==
  IF r.ovf /\ overflow_checks THEN Panic("arithmetic overflow")
  ELSE Ok(Number(r.v))

\* A division or remainder [v, bad]: a zero divisor and i64::MIN / -1 panic.
Divided(r) ==
  IF r.bad THEN Panic("division by zero or with overflow")
  ELSE Ok(Number(r.v))

\* `a << b` on i64 with an i64 count.
I64Shl(a, b) ==
  IF ShiftInRange(b, 64) THEN Ok(Number(ShlBits(a, b[1])))
  ELSE IF overflow_checks THEN Panic("shift left with overflow")
  ELSE Ok(Number(ShlBits(a, ShiftMasked(b, 64))))

\* `a >> b` on i64 with an i64 count.
I64Shr(a, b) ==
  IF ShiftInRange(b, 64) THEN Ok(Number(SarBits(a, b[1])))
  ELSE IF overflow_checks THEN Panic("shift right with overflow")
  ELSE Ok(Number(SarBits(a, ShiftMasked(b, 64))))

\* The closure of `>>>=`: left and right cast to u32, `(left << right) as i64`.
UnsignedShiftAssign(left, right) ==
  LET l == AsU32(left)
      r == AsU32(right)
      inRange == r[2] = 0 /\ r[1] < 32
  IN  IF inRange THEN Ok(Number(U32AsI64(ShlBits(l, r[1]))))
      ELSE IF overflow_checks THEN Panic("shift left with overflow")
      ELSE Ok(Number(U32AsI64(ShlBits(l, r[1] % 32))))

\* The closures assign() hands to store_return and without_right, by category.
Combinator(category, left, right) ==
  CASE category = "Equal" -> Ok(right)
    [] category = "PlusEqual" -> Checked(I64Add(ToI64(left), ToI64(right)))
    [] category = "MinusEqual" -> Checked(I64Sub(ToI64(left), ToI64(right)))
    [] category = "SlashEqual" -> Divided(I64Div(ToI64(left), ToI64(right)))
    [] category = "StarEqual" -> Checked(I64Mul(ToI64(left), ToI64(right)))
    [] category = "GreaterGreaterEqual" -> I64Shr(ToI64(left), ToI64(right))
    [] category = "LessLessEqual" -> I64Shl(ToI64(left), ToI64(right))
    [] category = "GreaterGreaterGreaterEqual" ->
         UnsignedShiftAssign(ToI64(left), ToI64(right))
    [] category = "PercentEqual" -> Divided(I64Rem(ToI64(left), ToI64(right)))
    [] category = "PlusPlus" -> Checked(I64Add(ToI64(left), I64_ONE))
    [] category = "MinusMinus" -> Checked(I64Sub(ToI64(left), I64_ONE))

AssignCategories ==
  {"Equal", "PlusEqual", "MinusEqual", "SlashEqual", "StarEqual",
   "GreaterGreaterEqual", "LessLessEqual", "GreaterGreaterGreaterEqual",
   "PercentEqual", "PlusPlus", "MinusMinus"}

\* `i64::from(idx) as usize`, as a natural below 2^31, or -1 when it is not
\* below 2^31 (every negative i64 is: the cast keeps the bits).
AsUsize(n) == IF n[3] = 0 /\ n[4] = 0 /\ n[2] < 32768 THEN n[1] + n[2] * W ELSE -1

\* ReturnByOrder with the match on the order lost: the new value always.
ReturnByOrderAlwaysNew(order, result, original) == result

\* The value every call returns by its order: the new value or the previous.
ReturnByOrder(order, result, original) ==
  IF order = "AssignReturn" THEN result ELSE original

\* prepare_array starting from an empty vector when left is no array.
prepare_array_dropping_scalar(idx, left) ==
  LET i == AsUsize(ToI64(idx))
      arr == IF left.t = "Array" THEN left.a ELSE <<>>
      n == IF Len(arr) > i + 1 THEN Len(arr) ELSE i + 1
  IN  IF i < 0 THEN Panic("capacity overflow")
      ELSE Ok([idx |-> i,
               arr |-> [j \in 1..n |-> IF j <= Len(arr) THEN arr[j] ELSE Null]])

\* prepare_array: the index and the array to write to, or a panic.  An index
\* of 2^31 or more (any negative i64, cast to usize) ends the process in
\* every build: `idx + 1` overflows or the padding loop exhausts the
\* allocator, and where `idx + 1` wraps to 0 `arr[idx]` is out of bounds.
prepare_array(idx, left) ==
  LET i == AsUsize(ToI64(idx))
      arr == IF left.t = "Array" THEN left.a ELSE <<left>>
      n == IF Len(arr) > i + 1 THEN Len(arr) ELSE i + 1
  IN  IF i < 0 THEN Panic("capacity overflow")
      ELSE Ok([idx |-> i,
               arr |-> [j \in 1..n |-> IF j <= Len(arr) THEN arr[j] ELSE Null]])

\* prepare_dict keeping the entries of a dict only.
prepare_dict_dropping_others(left) ==
  IF left.t = "Dict" THEN left.d ELSE EmptyDict

\* prepare_dict
prepare_dict(left) ==
  CASE left.t = "Array" ->
         [key \in {NatToString(i - 1) : i \in 1..Len(left.a)} |->
            left.a[CHOOSE i \in 1..Len(left.a) : NatToString(i - 1) = key]]
    [] left.t = "Dict" -> left.d
    [] left.t = "Null" -> EmptyDict
    [] OTHER -> [key \in {"0"} |-> left]

\* Interpreter::save: add_to_index(..).unwrap()
save(r, idx, key, value) ==
  LET w == add_to_index(r, idx, key, ValueSlot(value))
  IN  IF w = None THEN St(r, Panic("unwrap on None")) ELSE St(w[1], Ok(value))

\* named_value with the index of the root frame for every name.
named_value_in_root(r, key) ==
  LET f == index_named(r, key)
      hit == IF f = None THEN [idx |-> 0, slot |-> ValueSlot(Null)] ELSE f[1]
  IN  IF hit.slot.c = "Function" THEN Err("is a function and not assignable")
      ELSE Ok([idx |-> 0, val |-> hit.slot.val])

\* Interpreter::named_value: the frame index and the value of key; (0, Null)
\* when no frame binds it; an error when it names a function.
named_value(r, key) ==
  LET f == index_named(r, key)
      hit == IF f = None THEN [idx |-> 0, slot |-> ValueSlot(Null)] ELSE f[1]
  IN  IF hit.slot.c = "Function" THEN Err("is a function and not assignable")
      ELSE Ok([idx |-> hit.idx, val |-> hit.slot.val])

\* The tail of dynamic_return and of its handlers: store `stored` under key
\* in frame ridx, then return by the order.
SaveAndReturn(r, ridx, key, stored, order, result, original) ==
  IF save(r, ridx, key, stored).res.k # "Ok" THEN save(r, ridx, key, stored)
  ELSE St(save(r, ridx, key, stored).reg,
          Ok(ReturnByOrder(order, result, original)))

\* handle_dict, once the closure has run on the entry found at idx.
DictStore(r, ridx, key, dict, idx, original, return_original, result) ==
  IF result.k # "Ok" THEN St(r, result)
  ELSE SaveAndReturn(r, ridx, key,
                     Dict([k \in (DOMAIN dict) \cup {idx} |->
                             IF k = idx THEN result.v ELSE dict[k]]),
                     return_original, result.v, original)

\* handle_dict on the prepared dict.
DictEntry(r, ridx, key, dict, idx, original, right, return_original, category) ==
  DictStore(r, ridx, key, dict, idx, original, return_original,
            Combinator(category, original, right))

\* Interpreter::handle_dict
handle_dict(r, ridx, key, idx, left, right, return_original, category) ==
  DictEntry(r, ridx, key, prepare_dict(left), idx,
            IF idx \in DOMAIN prepare_dict(left) THEN prepare_dict(left)[idx]
            ELSE Null,
            right, return_original, category)

\* handle_array, once the closure has run on the element found at i.
ArrayStore(r, ridx, key, arr, i, return_original, result) ==
  IF result.k # "Ok" THEN St(r, result)
  ELSE SaveAndReturn(r, ridx, key, Array([arr EXCEPT ![i + 1] = result.v]),
                     return_original, result.v, arr[i + 1])

\* handle_array on the prepared index and array p.
ArrayElement(r, ridx, key, p, right, return_original, category) ==
  IF p.k # "Ok" THEN St(r, p)
  ELSE ArrayStore(r, ridx, key, p.v.arr, p.v.idx, return_original,
                  Combinator(category, p.v.arr[p.v.idx + 1], right))

\* Interpreter::handle_array
handle_array(r, ridx, key, idx, left, right, return_original, category) ==
  ArrayElement(r, ridx, key, prepare_array(idx, left), right, return_original,
               category)

\* dynamic_return without a lookup, once the closure has run on left.
ScalarStore(r, ridx, key, order, left, result) ==
  IF result.k # "Ok" THEN St(r, result)
  ELSE SaveAndReturn(r, ridx, key, result.v, order, result.v, left)

\* dynamic_return choosing the handler by the type of the index alone.
DynamicOnByIndex(r, key, order, lookup, right, category, ridx, left) ==
  IF lookup = None
  THEN ScalarStore(r, ridx, key, order, left, Combinator(category, left, right))
  ELSE IF lookup[1].t = "String"
  THEN handle_dict(r, ridx, key, lookup[1].s, left, right, order, category)
  ELSE handle_array(r, ridx, key, lookup[1], left, right, order, category)

\* dynamic_return on the frame index ridx and the value left found for key.
DynamicOn(r, key, order, lookup, right, category, ridx, left) ==
  IF lookup = None
  THEN ScalarStore(r, ridx, key, order, left, Combinator(category, left, right))
  ELSE IF lookup[1].t = "String" \/ left.t = "Dict"
  THEN handle_dict(r, ridx, key,
                   IF lookup[1].t = "String" THEN lookup[1].s
                   ELSE to_string(lookup[1]),
                   left, right, order, category)
  ELSE handle_array(r, ridx, key, lookup[1], left, right, order, category)

\* dynamic_return on the outcome nv of named_value.
DynamicFound(r, key, order, lookup, right, category, nv) ==
  IF nv.k # "Ok" THEN St(r, nv)
  ELSE DynamicOn(r, key, order, lookup, right, category, nv.v.idx, nv.v.val)

\* Interpreter::dynamic_return
dynamic_return(r, key, order, lookup, right, category) ==
  DynamicFound(r, key, order, lookup, right, category, named_value(r, key))

\* Interpreter::store_return
store_return(r, key, lookup, right, category) ==
  dynamic_return(r, key, "AssignReturn", lookup, right, category)

\* Interpreter::without_right
without_right(r, order, key, lookup, category) ==
  dynamic_return(r, key, order, lookup, Null, category)

\* ---------------------------------------------------------- operator.rs

\* as_i64: the right operand defaults to 0.
RightI64(b) == IF b = None THEN I64_ZERO ELSE ToI64(b[1])

\* b.map(|x| x.to_string()).unwrap_or_default()
RightString(b) == IF b = None THEN "" ELSE to_string(b[1])

\* b.map(bool::from).unwrap_or_default()
RightBool(b) == IF b = None THEN FALSE ELSE ToBool(b[1])

\* The closure of `>>>`: `((a as u32) >> b) as i32`, then `as i64`.
UnsignedShiftRight(a, b) ==
  IF ShiftInRange(b, 32)
  THEN Ok(Number(U32AsI32AsI64(ShrBits(AsU32(a), b[1]))))
  ELSE IF overflow_checks THEN Panic("shift right with overflow")
  ELSE Ok(Number(U32AsI32AsI64(ShrBits(AsU32(a), ShiftMasked(b, 32)))))

\* The closure of `**`: `(a as u32).pow(b as u32) as i32`, then `as i64`.
PowerResult(p) ==
  IF p.ovf /\ overflow_checks THEN Panic("multiply with overflow")
  ELSE Ok(Number(U32AsI32AsI64(p.v)))

Power(a, b) == PowerResult(U32Pow(AsU32(a), AsU32(b)))

\* The closures operator() hands to execute, by category: a is the left
\* value, b the optional right value.  The regular expression operators
\* (=~ and !~) are left to the regex crate and are not modelled.
OperatorResult(category, a, b) ==
  CASE category = "Plus" ->
         IF a.t = "String" THEN Ok(String(a.s \o RightString(b)))
         ELSE Checked(I64Add(ToI64(a), RightI64(b)))
    [] category = "Minus" ->
         IF a.t = "String" THEN Ok(String(RemoveFirst(a.s, RightString(b))))
         ELSE IF b = None THEN Checked(I64Neg(ToI64(a)))
         ELSE Checked(I64Sub(ToI64(a), ToI64(b[1])))
    [] category = "Star" -> Checked(I64Mul(ToI64(a), RightI64(b)))
    [] category = "Slash" -> Divided(I64Div(ToI64(a), RightI64(b)))
    [] category = "Percent" -> Divided(I64Rem(ToI64(a), RightI64(b)))
    [] category = "LessLess" -> I64Shl(ToI64(a), RightI64(b))
    [] category = "GreaterGreater" -> I64Shr(ToI64(a), RightI64(b))
    [] category = "GreaterGreaterGreater" ->
         UnsignedShiftRight(ToI64(a), RightI64(b))
    [] category = "Ampersand" ->
         Ok(Number(I64Bitwise("and", ToI64(a), RightI64(b))))
    [] category = "Pipe" -> Ok(Number(I64Bitwise("or", ToI64(a), RightI64(b))))
    [] category = "Caret" -> Ok(Number(I64Bitwise("xor", ToI64(a), RightI64(b))))
    [] category = "StarStar" -> Power(ToI64(a), RightI64(b))
    [] category = "Tilde" -> Ok(Number(NotW(ToI64(a))))
    [] category = "GreaterLess" ->
         Ok(Boolean(Contains(to_string(a), RightString(b))))
    [] category = "GreaterBangLess" ->
         Ok(Boolean(~Contains(to_string(a), RightString(b))))
    [] category = "Bang" -> Ok(Boolean(~ToBool(a)))
    [] category = "AmpersandAmpersand" -> Ok(Boolean(ToBool(a) /\ RightBool(b)))
    [] category = "PipePipe" -> Ok(Boolean(ToBool(a) \/ RightBool(b)))
    [] category = "EqualEqual" -> Ok(Boolean(a = (IF b = None THEN Null ELSE b[1])))
    [] category = "BangEqual" -> Ok(Boolean(a # (IF b = None THEN Null ELSE b[1])))
    [] category = "Greater" -> Ok(Boolean(I64Less(RightI64(b), ToI64(a))))
    [] category = "Less" -> Ok(Boolean(I64Less(ToI64(a), RightI64(b))))
    [] category = "GreaterEqual" -> Ok(Boolean(~I64Less(ToI64(a), RightI64(b))))
    [] category = "LessEqual" -> Ok(Boolean(~I64Less(RightI64(b), ToI64(a))))

ExecuteCategories ==
  {"Plus", "Minus", "Star", "Slash", "Percent", "LessLess", "GreaterGreater",
   "GreaterGreaterGreater", "Ampersand", "Pipe", "Caret", "StarStar", "Tilde",
   "GreaterLess", "GreaterBangLess", "Bang", "AmpersandAmpersand", "PipePipe",
   "EqualEqual", "BangEqual", "Greater", "Less", "GreaterEqual", "LessEqual"}

\* The number of times the loop `for _ in 1..repeat - 1` of the x operator
\* runs its body (repeat is not i64::MIN, and the count is below 2^31).
RepeatLoopCount(repeat) ==
  LET upper == AsUsize(I64Sub(repeat, I64_ONE).v)
  IN  IF upper > 1 THEN upper - 1 ELSE 0

\* ------------------------------------------------------- interpreter.rs

\* Interpreter::identifier
identifier(token) ==
  IF token.cat = "Identifier" THEN Ok(token.id) ELSE Err("unexpected category")

\* impl TryFrom<&Token> for NaslValue
ValueOfToken(token) ==
  CASE token.cat = "String" -> Ok(String(token.s))
    [] token.cat = "Identifier" -> Ok(String(token.id))
    [] token.cat = "Number" -> Ok(Number(token.n))
    [] OTHER -> Err("invalid primitive")

TodoKinds ==
  {"Return", "Include", "NamedParameter", "For", "While", "Repeat", "ForEach",
   "FunctionDeclaration", "Declare", "EoF"}

\* Vec::get at `i64::from(position) as usize`
ArrayGet(x, position) ==
  LET i == AsUsize(ToI64(position))
  IN  IF i >= 0 /\ i < Len(x) THEN Ok(x[i + 1]) ELSE Err("position not found")

\* HashMap::get at position.to_string()
DictGet(x, position) ==
  LET key == to_string(position)
  IN  IF key \in DOMAIN x THEN Ok(x[key]) ELSE Err("not found")

RECURSIVE resolve(_, _)
RECURSIVE assign(_, _, _, _, _)
RECURSIVE execute(_, _, _)
RECURSIVE operator(_, _, _)
RECURSIVE RepeatLoop(_, _, _)
RECURSIVE BlockArm(_, _, _)
RECURSIVE ParameterArm(_, _, _, _)

\* AssignExtension::assign as it would be if Array(name, None) were a target,
\* the variable as a whole.
assign_without_index(r, category, order, left, right) ==
  LET target ==
        CASE left.k = "Variable" ->
               LET id == identifier(left.tok)
               IN  IF id.k # "Ok" THEN St(r, id)
                   ELSE St(r, Ok([key |-> id.v, lookup |-> None]))
          [] left.k = "Array" /\ left.pos # None ->
               LET id == identifier(left.tok)
               IN  IF id.k # "Ok" THEN St(r, id)
                   ELSE LET p == resolve(left.pos[1], r)
                        IN  IF p.res.k # "Ok" THEN p
                            ELSE St(p.reg,
                                    Ok([key |-> id.v, lookup |-> Some(p.res.v)]))
          [] left.k = "Array" ->
               LET id == identifier(left.tok)
               IN  IF id.k # "Ok" THEN St(r, id)
                   ELSE St(r, Ok([key |-> id.v, lookup |-> None]))
          [] OTHER -> St(r, Err("unsupported assign left"))
  IN  IF target.res.k # "Ok" THEN target
      ELSE LET val == resolve(right, target.reg)
               key == target.res.v.key
               lookup == target.res.v.lookup
           IN  IF val.res.k # "Ok" THEN val
               ELSE IF category \in {"PlusPlus", "MinusMinus"}
               THEN without_right(val.reg, order, key, lookup, category)
               ELSE IF category \in AssignCategories
               THEN store_return(val.reg, key, lookup, val.res.v, category)
               ELSE St(val.reg, Err("invalid assign category"))

\* AssignExtension::assign
assign(r, category, order, left, right) ==
  LET target ==
        CASE left.k = "Variable" ->
               LET id == identifier(left.tok)
               IN  IF id.k # "Ok" THEN St(r, id)
                   ELSE St(r, Ok([key |-> id.v, lookup |-> None]))
          [] left.k = "Array" /\ left.pos # None ->
               LET id == identifier(left.tok)
               IN  IF id.k # "Ok" THEN St(r, id)
                   ELSE LET p == resolve(left.pos[1], r)
                        IN  IF p.res.k # "Ok" THEN p
                            ELSE St(p.reg,
                                    Ok([key |-> id.v, lookup |-> Some(p.res.v)]))
          [] OTHER -> St(r, Err("unsupported assign left"))
  IN  IF target.res.k # "Ok" THEN target
      ELSE LET val == resolve(right, target.reg)
               key == target.res.v.key
               lookup == target.res.v.lookup
           IN  IF val.res.k # "Ok" THEN val
               ELSE IF category \in {"PlusPlus", "MinusMinus"}
               THEN without_right(val.reg, order, key, lookup, category)
               ELSE IF category \in AssignCategories
               THEN store_return(val.reg, key, lookup, val.res.v, category)
               ELSE St(val.reg, Err("invalid assign category"))

\* Interpreter::execute as it would be if && and || stopped at a left value
\* that decides the result.
execute_short_circuiting(r, stmts, category) ==
  IF Len(stmts) = 0 THEN St(r, Panic("index out of bounds"))
  ELSE LET first == resolve(stmts[1], r)
           decided == /\ first.res.k = "Ok"
                      /\ \/ category = "AmpersandAmpersand" /\ ~ToBool(first.res.v)
                         \/ category = "PipePipe" /\ ToBool(first.res.v)
           second == IF Len(stmts) = 1 \/ decided THEN St(first.reg, Ok(None))
                     ELSE LET s == resolve(stmts[2], first.reg)
                          IN  IF s.res.k # "Ok" THEN s
                              ELSE St(s.reg, Ok(Some(s.res.v)))
       IN  IF first.res.k # "Ok" THEN first
           ELSE IF second.res.k # "Ok" THEN second
           ELSE IF decided
           THEN St(first.reg, Ok(Boolean(category = "PipePipe")))
           ELSE St(second.reg,
                   OperatorResult(category, first.res.v, second.res.v))

\* Interpreter::execute: the operands left to right, then the closure.
execute(r, stmts, category) ==
  IF Len(stmts) = 0 THEN St(r, Panic("index out of bounds"))
  ELSE LET first == resolve(stmts[1], r)
           second == IF Len(stmts) = 1 THEN St(first.reg, Ok(None))
                     ELSE LET s == resolve(stmts[2], first.reg)
                          IN  IF s.res.k # "Ok" THEN s
                              ELSE St(s.reg, Ok(Some(s.res.v)))
       IN  IF first.res.k # "Ok" THEN first
           ELSE IF second.res.k # "Ok" THEN second
           ELSE St(second.reg,
                   OperatorResult(category, first.res.v, second.res.v))

\* The loop of the x operator: n times resolve(repeatable)?.
RepeatLoop(r, repeatable, n) ==
  IF n = 0 THEN St(r, Ok(Null))
  ELSE LET one == resolve(repeatable, r)
       IN  IF one.res.k # "Ok" THEN one
           ELSE RepeatLoop(one.reg, repeatable, n - 1)

\* OperatorExtension::operator
operator(r, category, stmts) ==
  IF category \in ExecuteCategories THEN execute(r, stmts, category)
  ELSE IF category = "X" THEN
    IF Len(stmts) < 2 THEN St(r, Panic("index out of bounds"))
    ELSE LET lastv == resolve(stmts[2], r)
         IN  IF lastv.res.k # "Ok" THEN lastv
             ELSE LET repeat == ToI64(lastv.res.v)
                  IN  IF repeat = I64_ZERO THEN St(lastv.reg, Ok(Null))
                      ELSE IF I64Sub(repeat, I64_ONE).ovf /\ overflow_checks
                      THEN St(lastv.reg, Panic("subtract with overflow"))
                      ELSE LET looped == RepeatLoop(lastv.reg, stmts[1],
                                                    RepeatLoopCount(repeat))
                           IN  IF looped.res.k # "Ok" THEN looped
                               ELSE resolve(stmts[1], looped.reg)
  ELSE St(r, Err("wrong category"))

\* The Block arm of resolve, from statement i on.
BlockArm(r, blocks, i) ==
  IF i > Len(blocks) THEN St(r, Ok(Null))
  ELSE LET one == resolve(blocks[i], r)
       IN  IF one.res.k # "Ok" THEN one
           ELSE IF one.res.v.t = "Exit" THEN St(one.reg, Ok(ExitValue(one.res.v.rc)))
           ELSE BlockArm(one.reg, blocks, i + 1)

\* The Parameter arm of resolve, from statement i on.
ParameterArm(r, x, i, result) ==
  IF i > Len(x) THEN St(r, Ok(Array(result)))
  ELSE LET val == resolve(x[i], r)
       IN  IF val.res.k # "Ok" THEN val
           ELSE ParameterArm(val.reg, x, i + 1, Append(result, val.res.v))

\* The Exit arm with the code coerced to an integer, whatever the value is.
ExitArmCoercing(rc) ==
  IF rc.res.k # "Ok" THEN rc
  ELSE St(rc.reg, Ok(ExitValue(ToI64(rc.res.v))))

\* The Exit arm of resolve, once the statement of the code is resolved to rc.
ExitArm(rc) ==
  IF rc.res.k # "Ok" THEN rc
  ELSE IF rc.res.v.t = "Number" THEN St(rc.reg, Ok(ExitValue(rc.res.v.n)))
  ELSE St(rc.reg, Err("expected numeric value"))

\* Interpreter::resolve.  The Call arm (call.rs) is not among the sources.
resolve(statement, r) ==
  CASE statement.k = "Array" ->
         LET name == identifier(statement.tok)
         IN  IF name.k # "Ok" THEN St(r, name)
             ELSE LET val == named(r, name.v)
                  IN  IF val = None THEN St(r, Err("not found"))
                      ELSE IF statement.pos = None /\ val[1].c = "Value"
                      THEN St(r, Ok(val[1].val))
                      ELSE IF statement.pos # None /\ val[1].c = "Value"
                              /\ val[1].val.t \in {"Array", "Dict"}
                      THEN LET position == resolve(statement.pos[1], r)
                           IN  IF position.res.k # "Ok" THEN position
                               ELSE IF val[1].val.t = "Array"
                               THEN St(position.reg,
                                       ArrayGet(val[1].val.a, position.res.v))
                               ELSE St(position.reg,
                                       DictGet(val[1].val.d, position.res.v))
                      ELSE St(r, Err("internal error statement"))
    [] statement.k = "Exit" -> ExitArm(resolve(statement.stmt, r))
    [] statement.k \in TodoKinds -> St(r, Panic("not yet implemented"))
    [] statement.k = "Primitive" -> St(r, ValueOfToken(statement.tok))
    [] statement.k = "Variable" ->
         LET name == ValueOfToken(statement.tok)
         IN  IF name.k # "Ok" THEN St(r, name)
             ELSE LET slot == named(r, to_string(name.v))
                  IN  IF slot = None THEN St(r, Err("variable not found"))
                      ELSE IF slot[1].c = "Function"
                      THEN St(r, Panic("not yet implemented"))
                      ELSE St(r, Ok(slot[1].val))
    [] statement.k = "Parameter" -> ParameterArm(r, statement.stmts, 1, <<>>)
    [] statement.k = "Assign" ->
         assign(r, statement.cat, statement.order, statement.left, statement.right)
    [] statement.k = "Operator" -> operator(r, statement.cat, statement.stmts)
    [] statement.k = "If" ->
         LET value == resolve(statement.cond, r)
         IN  IF value.res.k # "Ok" THEN value
             ELSE IF ToBool(value.res.v) THEN resolve(statement.then, value.reg)
             ELSE IF statement.else # None
             THEN resolve(statement.else[1], value.reg)
             ELSE St(value.reg, Ok(Null))
    [] statement.k = "Block" -> BlockArm(r, statement.stmts, 1)
    [] statement.k = "NoOp" -> St(r, Ok(Null))

\* ---------------------------------------------------- loop_extension.rs
\* The loops belong to the newer interpreter, whose NaslValue has the control
\* values Break, Continue and Return(v) and whose resolve (not among the
\* sources) has arms for the loop and control statements.

BreakValue == [t |-> "Break"]
ContinueValue == [t |-> "Continue"]
ReturnOf(v) == [t |-> "Return", v |-> v]

BreakStmt == [k |-> "Break"]
ContinueStmt == [k |-> "Continue"]
ReturnStmt(stmt) == [k |-> "Return", stmt |-> stmt]
For(assignment, condition, update, body) ==
  [k |-> "For", assignment |-> assignment, condition |-> condition,
   update |-> update, body |-> body]
While(condition, body) == [k |-> "While", condition |-> condition, body |-> body]
Repeat(body, condition) == [k |-> "Repeat", body |-> body, condition |-> condition]
ForEach(variable, iterable, body) ==
  [k |-> "ForEach", variable |-> variable, iterable |-> iterable, body |-> body]

\* What a loop leaves: the register, the result, and the evaluations it made
\* in their order, each with its result.
LoopSt(r, res, log) == [reg |-> r, res |-> res, log |-> log]
Event(what, res) == [what |-> what, res |-> res]

\* add_local binding the name in the root frame.
add_local_in_root(r, key, slot) ==
  [r EXCEPT ![1] =
     [k \in (DOMAIN @) \cup {key} |-> IF k = key THEN slot ELSE @[k]]]

\* Register::add_local: bind the name in the innermost frame.
add_local(r, key, slot) ==
  [r EXCEPT ![Len(r)] =
     [k \in (DOMAIN @) \cup {key} |-> IF k = key THEN slot ELSE @[k]]]

\* Vec::<NaslValue>::from: an Array stays, a Dict gives its values, Null the
\* empty sequence, any other value the sequence of that one value.
ToVec(v) ==
  CASE v.t = "Array" -> v.a
    [] v.t = "Dict" -> [i \in 1..Len(KeyOrder(DOMAIN v.d)) |->
                          v.d[KeyOrder(DOMAIN v.d)[i]]]
    [] v.t = "Null" -> <<>>
    [] OTHER -> <<v>>

RECURSIVE Evaluate(_, _)
RECURSIVE EvaluateBlock(_, _, _)
RECURSIVE EvaluatedInBlock(_, _, _)
RECURSIVE Branch(_, _)
RECURSIVE for_loop(_, _, _, _, _)
RECURSIVE ForCycle(_, _, _, _, _)
RECURSIVE ForChecked(_, _, _, _, _)
RECURSIVE ForRan(_, _, _, _, _)
RECURSIVE while_loop(_, _, _, _)
RECURSIVE WhileChecked(_, _, _, _)
RECURSIVE WhileRan(_, _, _, _)
RECURSIVE repeat_loop(_, _, _, _)
RECURSIVE RepeatRan(_, _, _, _)
RECURSIVE RepeatChecked(_, _, _, _)
RECURSIVE for_each_loop(_, _, _, _)
RECURSIVE ForEachOver(_, _, _, _, _, _)
RECURSIVE ForEachRan(_, _, _, _, _, _)

\* The most evaluations of a loop that are followed: a loop that makes more
\* is still running, and the call has not returned.
MaxEvents == 20
Running == [k |-> "Running"]
Spinning(log) == Len(log) >= MaxEvents

\* The value a `return` statement wraps.
Wrapped(o) == IF o.res.k # "Ok" THEN o ELSE St(o.reg, Ok(ReturnOf(o.res.v)))

\* The result of a loop without the record of its evaluations.
Finished(o) == St(o.reg, o.res)

\* The If arm, on the evaluated condition c.
Branch(statement, c) ==
  IF c.res.k # "Ok" THEN c
  ELSE IF ToBool(c.res.v) THEN Evaluate(statement.then, c.reg)
  ELSE IF statement.else # None THEN Evaluate(statement.else[1], c.reg)
  ELSE St(c.reg, Ok(Null))

\* The Block arm from statement i on: Exit, Return and Break end the block.
EvaluateBlock(r, blocks, i) ==
  IF i > Len(blocks) THEN St(r, Ok(Null))
  ELSE EvaluatedInBlock(blocks, i, Evaluate(blocks[i], r))

EvaluatedInBlock(blocks, i, one) ==
  IF one.res.k # "Ok" THEN one
  ELSE IF one.res.v.t \in {"Exit", "Return", "Break"} THEN one
  ELSE EvaluateBlock(one.reg, blocks, i + 1)

\* resolve of the newer interpreter: the arms for the control and loop
\* statements, If and Block over them, and resolve for every other statement.
Evaluate(statement, r) ==
  CASE statement.k = "Break" -> St(r, Ok(BreakValue))
    [] statement.k = "Continue" -> St(r, Ok(ContinueValue))
    [] statement.k = "Return" -> Wrapped(Evaluate(statement.stmt, r))
    [] statement.k = "If" -> Branch(statement, Evaluate(statement.cond, r))
    [] statement.k = "Block" -> EvaluateBlock(r, statement.stmts, 1)
    [] statement.k = "For" ->
         Finished(for_loop(r, statement.assignment, statement.condition,
                           statement.update, statement.body))
    [] statement.k = "While" ->
         Finished(while_loop(r, statement.condition, statement.body, <<>>))
    [] statement.k = "Repeat" ->
         Finished(repeat_loop(r, statement.body, statement.condition, <<>>))
    [] statement.k = "ForEach" ->
         Finished(for_each_loop(r, statement.variable, statement.iterable,
                                statement.body))
    [] OTHER -> resolve(statement, r)

\* Interpreter::for_loop: the assignment, then the loop.
for_loop(r, assignment, condition, update, body) ==
  ForCycle(condition, update, body, <<>>, [what |-> "assignment",
                                           o |-> Evaluate(assignment, r)])

\* for_loop from the top of `loop` on, after the evaluation `done` (the
\* assignment or an update) whose `?` comes first.
ForCycle(condition, update, body, log, done) ==
  IF done.o.res.k # "Ok"
  THEN LoopSt(done.o.reg, done.o.res, Append(log, Event(done.what, done.o.res)))
  ELSE IF Spinning(log)
  THEN LoopSt(done.o.reg, Running, Append(log, Event(done.what, done.o.res)))
  ELSE ForChecked(condition, update, body,
                  Append(log, Event(done.what, done.o.res)),
                  Evaluate(condition, done.o.reg))

\* for_loop on the evaluated condition c.
ForChecked(condition, update, body, log, c) ==
  IF c.res.k # "Ok" THEN LoopSt(c.reg, c.res, Append(log, Event("condition", c.res)))
  ELSE IF ~ToBool(c.res.v)
  THEN LoopSt(c.reg, Ok(Null), Append(log, Event("condition", c.res)))
  ELSE ForRan(condition, update, body, Append(log, Event("condition", c.res)),
              Evaluate(body, c.reg))

\* ForRan with the match on the special values lost: the update always runs.
ForRanUpdatingAlways(condition, update, body, log, ret) ==
  IF ret.res.k # "Ok" THEN LoopSt(ret.reg, ret.res, Append(log, Event("body", ret.res)))
  ELSE ForCycle(condition, update, body, Append(log, Event("body", ret.res)),
                [what |-> "update", o |-> Evaluate(update, ret.reg)])

\* for_loop on the result ret of the body: catch the special values, then
\* the update.
ForRan(condition, update, body, log, ret) ==
  IF ret.res.k # "Ok" THEN LoopSt(ret.reg, ret.res, Append(log, Event("body", ret.res)))
  ELSE IF ret.res.v.t = "Break"
  THEN LoopSt(ret.reg, Ok(Null), Append(log, Event("body", ret.res)))
  ELSE IF ret.res.v.t \in {"Exit", "Return"}
  THEN LoopSt(ret.reg, ret.res, Append(log, Event("body", ret.res)))
  ELSE ForCycle(condition, update, body, Append(log, Event("body", ret.res)),
                [what |-> "update", o |-> Evaluate(update, ret.reg)])

\* Interpreter::while_loop, from the condition on.
while_loop(r, condition, body, log) ==
  IF Spinning(log) THEN LoopSt(r, Running, log)
  ELSE WhileChecked(condition, body, log, Evaluate(condition, r))

WhileChecked(condition, body, log, c) ==
  IF c.res.k # "Ok" THEN LoopSt(c.reg, c.res, Append(log, Event("condition", c.res)))
  ELSE IF ~ToBool(c.res.v)
  THEN LoopSt(c.reg, Ok(Null), Append(log, Event("condition", c.res)))
  ELSE WhileRan(condition, body, Append(log, Event("condition", c.res)),
                Evaluate(body, c.reg))

\* WhileRan taking Exit and Return for Break.
WhileRanBreakingOnly(condition, body, log, ret) ==
  IF ret.res.k # "Ok" THEN LoopSt(ret.reg, ret.res, Append(log, Event("body", ret.res)))
  ELSE IF ret.res.v.t \in {"Break", "Exit", "Return"}
  THEN LoopSt(ret.reg, Ok(Null), Append(log, Event("body", ret.res)))
  ELSE while_loop(ret.reg, condition, body, Append(log, Event("body", ret.res)))

WhileRan(condition, body, log, ret) ==
  IF ret.res.k # "Ok" THEN LoopSt(ret.reg, ret.res, Append(log, Event("body", ret.res)))
  ELSE IF ret.res.v.t = "Break"
  THEN LoopSt(ret.reg, Ok(Null), Append(log, Event("body", ret.res)))
  ELSE IF ret.res.v.t \in {"Exit", "Return"}
  THEN LoopSt(ret.reg, ret.res, Append(log, Event("body", ret.res)))
  ELSE while_loop(ret.reg, condition, body, Append(log, Event("body", ret.res)))

\* Interpreter::repeat_loop, from the body on.
repeat_loop(r, body, condition, log) ==
  IF Spinning(log) THEN LoopSt(r, Running, log)
  ELSE RepeatRan(body, condition, log, Evaluate(body, r))

RepeatRan(body, condition, log, ret) ==
  IF ret.res.k # "Ok" THEN LoopSt(ret.reg, ret.res, Append(log, Event("body", ret.res)))
  ELSE IF ret.res.v.t = "Break"
  THEN LoopSt(ret.reg, Ok(Null), Append(log, Event("body", ret.res)))
  ELSE IF ret.res.v.t \in {"Exit", "Return"}
  THEN LoopSt(ret.reg, ret.res, Append(log, Event("body", ret.res)))
  ELSE RepeatChecked(body, condition, Append(log, Event("body", ret.res)),
                     Evaluate(condition, ret.reg))

\* RepeatChecked leaving the loop when the condition is false.
RepeatCheckedWhile(body, condition, log, c) ==
  IF c.res.k # "Ok" THEN LoopSt(c.reg, c.res, Append(log, Event("condition", c.res)))
  ELSE IF ~ToBool(c.res.v)
  THEN LoopSt(c.reg, Ok(Null), Append(log, Event("condition", c.res)))
  ELSE repeat_loop(c.reg, body, condition, Append(log, Event("condition", c.res)))

RepeatChecked(body, condition, log, c) ==
  IF c.res.k # "Ok" THEN LoopSt(c.reg, c.res, Append(log, Event("condition", c.res)))
  ELSE IF ToBool(c.res.v)
  THEN LoopSt(c.reg, Ok(Null), Append(log, Event("condition", c.res)))
  ELSE repeat_loop(c.reg, body, condition, Append(log, Event("condition", c.res)))

\* ForEachOver leaving the iteration variable as it is.
ForEachOverWithoutBinding(name, body, log, items, i, r) ==
  IF i > Len(items) THEN LoopSt(r, Ok(Null), log)
  ELSE ForEachRan(name, body, Append(log, Event("bind", Ok(items[i]))), items, i,
                  Evaluate(body, r))

\* for_each_loop from element i of the items on: bind it to the iteration
\* variable, then the body.
ForEachOver(name, body, log, items, i, r) ==
  IF i > Len(items) THEN LoopSt(r, Ok(Null), log)
  ELSE ForEachRan(name, body, Append(log, Event("bind", Ok(items[i]))), items, i,
                  Evaluate(body, add_local(r, name, ValueSlot(items[i]))))

\* for_each_loop on the result ret of the body for element i.
ForEachRan(name, body, log, items, i, ret) ==
  IF ret.res.k # "Ok" THEN LoopSt(ret.reg, ret.res, Append(log, Event("body", ret.res)))
  ELSE IF ret.res.v.t = "Break"
  THEN LoopSt(ret.reg, Ok(Null), Append(log, Event("body", ret.res)))
  ELSE IF ret.res.v.t \in {"Exit", "Return"}
  THEN LoopSt(ret.reg, ret.res, Append(log, Event("body", ret.res)))
  ELSE ForEachOver(name, body, Append(log, Event("body", ret.res)), items, i + 1,
                   ret.reg)

\* for_each_loop on the evaluated iterable.
ForEachIterated(name, body, it) ==
  IF it.res.k # "Ok" THEN LoopSt(it.reg, it.res, <<Event("iterable", it.res)>>)
  ELSE ForEachOver(name, body, <<Event("iterable", it.res)>>, ToVec(it.res.v), 1,
                   it.reg)

\* Interpreter::for_each_loop
for_each_loop(r, variable, iterable, body) ==
  IF variable.cat # "Identifier" THEN LoopSt(r, Err("wrong category"), <<>>)
  ELSE ForEachIterated(variable.id, body, Evaluate(iterable, r))

\* ---------------------------------------------------------------- cursor
\* Cursor over the source: characters are single bytes, so the number of
\* characters consumed is len_consumed.

\* What peek yields past the end of the source.
EOF_CHAR == NulChar

Whitespace == {" ", "\n", "\t", "\r"}
Base10Digits == {"0", "1", "2", "3", "4", "5", "6", "7", "8", "9"}
Alphabetic ==
  {"a", "b", "c", "d", "e", "f", "g", "h", "i", "j", "k", "l", "m", "n", "o", "p", "q", "r", "s", "t", "u", "v", "w", "x", "y", "z"}
  \cup {"A", "B", "C", "D", "E", "F", "G", "H", "I", "J", "K", "L", "M", "N", "O", "P", "Q", "R", "S", "T", "U", "V", "W", "X", "Y", "Z"}
Symbols ==
  {"(", ")", "[", "]", "{", "}", ",", ".", "#", "-", "+", "%", ";", "/", "*",
   ":", "~", "&", "|", "^", "!", "=", ">", "<", "\"", "'", "\\", "_", "@", "$", "?"}

\* Every character a source is written in, and EOF_CHAR.
Chars == Whitespace \cup Base10Digits \cup Alphabetic \cup Symbols \cup {EOF_CHAR}

\* The predicate |c| c != stop
Not(stop) == Chars \ {stop}

is_eof(c, p) == p >= Len(c)

\* Cursor::peek: the n-th character after the cursor
peek(c, p, n) == IF p + n < Len(c) THEN c[p + n + 1] ELSE EOF_CHAR

\* Cursor::skip_while: the cursor after the characters the predicate
\* accepts; advanced[q] is where the loop ends once the cursor is at q.
skip_while(c, p, accepted) ==
  LET advanced[q \in p..Len(c)] ==
        IF ~is_eof(c, q) /\ peek(c, q, 0) \in accepted THEN advanced[q + 1] ELSE q
  IN  advanced[p]

\* -------------------------------------------------------------- token.rs

Quotable == "Quotable"
Unquotable == "Unquotable"

Binary == "Binary"
Octal == "Octal"
Base10 == "Base10"
Hex == "Hex"

verify_binary == {"0", "1"}
verify_octal == {"0", "1", "2", "3", "4", "5", "6", "7"}
verify_base10 == Base10Digits
verify_hex ==
  Base10Digits \cup {"A", "B", "C", "D", "E", "F"} \cup {"a", "b", "c", "d", "e", "f"}

\* Base::verifier
verifier(base) ==
  CASE base = Binary -> verify_binary
    [] base = Octal -> verify_octal
    [] base = Base10 -> verify_base10
    [] base = Hex -> verify_hex

\* Base::radix
radix(base) ==
  CASE base = Binary -> 2
    [] base = Octal -> 8
    [] base = Base10 -> 10
    [] base = Hex -> 16

\* IdentifierType::new: the keyword of the text, or Undefined(text)
IdentifierTypeNew(lookup) ==
  CASE lookup = <<"f", "u", "n", "c", "t", "i", "o", "n">> -> [t |-> "Function"]
     [] lookup = <<"_", "F", "C", "T", "_", "A", "N", "O", "N", "_", "A", "R", "G", "S">> -> [t |-> "FCTAnonArgs"]
     [] lookup = <<"T", "R", "U", "E">> -> [t |-> "True"]
     [] lookup = <<"F", "A", "L", "S", "E">> -> [t |-> "False"]
     [] lookup = <<"f", "o", "r">> -> [t |-> "For"]
     [] lookup = <<"f", "o", "r", "e", "a", "c", "h">> -> [t |-> "ForEach"]
     [] lookup = <<"i", "f">> -> [t |-> "If"]
     [] lookup = <<"e", "l", "s", "e">> -> [t |-> "Else"]
     [] lookup = <<"w", "h", "i", "l", "e">> -> [t |-> "While"]
     [] lookup = <<"r", "e", "p", "e", "a", "t">> -> [t |-> "Repeat"]
     [] lookup = <<"u", "n", "t", "i", "l">> -> [t |-> "Until"]
     [] lookup = <<"l", "o", "c", "a", "l", "_", "v", "a", "r">> -> [t |-> "LocalVar"]
     [] lookup = <<"g", "l", "o", "b", "a", "l", "_", "v", "a", "r">> -> [t |-> "GlobalVar"]
     [] lookup = <<"N", "U", "L", "L">> -> [t |-> "Null"]
     [] lookup = <<"r", "e", "t", "u", "r", "n">> -> [t |-> "Return"]
     [] lookup = <<"i", "n", "c", "l", "u", "d", "e">> -> [t |-> "Include"]
     [] lookup = <<"e", "x", "i", "t">> -> [t |-> "Exit"]
     [] lookup = <<"A", "C", "T", "_", "A", "T", "T", "A", "C", "K">> -> [t |-> "ACT(Attack)"]
     [] lookup = <<"A", "C", "T", "_", "D", "E", "N", "I", "A", "L">> -> [t |-> "ACT(Denial)"]
     [] lookup = <<"A", "C", "T", "_", "D", "E", "S", "T", "R", "U", "C", "T", "I", "V", "E", "_", "A", "T", "T", "A", "C", "K">> -> [t |-> "ACT(DestructiveAttack)"]
     [] lookup = <<"A", "C", "T", "_", "E", "N", "D">> -> [t |-> "ACT(End)"]
     [] lookup = <<"A", "C", "T", "_", "F", "L", "O", "O", "D">> -> [t |-> "ACT(Flood)"]
     [] lookup = <<"A", "C", "T", "_", "G", "A", "T", "H", "E", "R", "_", "I", "N", "F", "O">> -> [t |-> "ACT(GatherInfo)"]
     [] lookup = <<"A", "C", "T", "_", "I", "N", "I", "T">> -> [t |-> "ACT(Init)"]
     [] lookup = <<"A", "C", "T", "_", "K", "I", "L", "L", "_", "H", "O", "S", "T">> -> [t |-> "ACT(KillHost)"]
     [] lookup = <<"A", "C", "T", "_", "M", "I", "X", "E", "D", "_", "A", "T", "T", "A", "C", "K">> -> [t |-> "ACT(MixedAttack)"]
     [] lookup = <<"A", "C", "T", "_", "S", "C", "A", "N", "N", "E", "R">> -> [t |-> "ACT(Scanner)"]
     [] lookup = <<"A", "C", "T", "_", "S", "E", "T", "T", "I", "N", "G", "S">> -> [t |-> "ACT(Settings)"]
     [] OTHER -> [t |-> "Undefined", s |-> lookup]

\* Category: a category without contents, and the categories with contents.
Category(name) == [c |-> name]
StringCategoryOf(text) == [c |-> "String", s |-> text]
NumberCategory(num) == [c |-> "Number", n |-> num]
IllegalNumber(base) == [c |-> "IllegalNumber", base |-> base]
Unclosed(string_category) == [c |-> "Unclosed", of |-> string_category]
Identifier(type) == [c |-> "Identifier", id |-> type]

\* Token, and the macro token!
Token(category, start, end) == [category |-> category, position |-> <<start, end>>]

\* What a step of the tokenizer leaves: the token, if any, and the cursor.
Lexed(token, p) == [token |-> token, cursor |-> p]

\* Tokenizer::lookup
lookup(c, start, end) == SubSeq(c, start + 1, end)

\* Tokenizer::tokenize_greater, with the cursor p behind the `>`
tokenize_greater(c, p) ==
  LET start == p - 1
  IN  CASE peek(c, p, 0) = "=" ->
             Lexed(Some(Token(Category("GreaterEqual"), start, p + 1)), p + 1)
        [] peek(c, p, 0) = "<" ->
             Lexed(Some(Token(Category("GreaterLess"), start, p + 1)), p + 1)
        [] peek(c, p, 0) = ">" ->
             CASE peek(c, p + 1, 0) = ">" ->
                    IF peek(c, p + 2, 0) = "="
                    THEN Lexed(Some(Token(Category("GreaterGreaterGreaterEqual"),
                                          start, p + 3)), p + 3)
                    ELSE Lexed(Some(Token(Category("GreaterGreaterGreater"),
                                          start, p + 2)), p + 2)
               [] peek(c, p + 1, 0) = "=" ->
                    Lexed(Some(Token(Category("GreaterGreaterEqual"), start, p + 2)),
                          p + 2)
               [] OTHER ->
                    Lexed(Some(Token(Category("GreaterGreater"), start, p + 1)), p + 1)
        [] peek(c, p, 0) = "!" /\ peek(c, p, 1) = "<" ->
             Lexed(Some(Token(Category("GreaterBangLess"), start, p + 2)), p + 2)
        [] OTHER -> Lexed(Some(Token(Category("Greater"), start, p)), p)

\* tokenize_less without the arm for `<<=`.
tokenize_less_without_assign(c, p) ==
  LET start == p - 1
  IN  CASE peek(c, p, 0) = "=" ->
             Lexed(Some(Token(Category("LessEqual"), start, p + 1)), p + 1)
        [] peek(c, p, 0) = "<" ->
             Lexed(Some(Token(Category("LessLess"), start, p + 1)), p + 1)
        [] OTHER -> Lexed(Some(Token(Category("Less"), start, p)), p)

\* Tokenizer::tokenize_less, with the cursor p behind the `<`
tokenize_less(c, p) ==
  LET start == p - 1
  IN  CASE peek(c, p, 0) = "=" ->
             Lexed(Some(Token(Category("LessEqual"), start, p + 1)), p + 1)
        [] peek(c, p, 0) = "<" ->
             IF peek(c, p + 1, 0) = "="
             THEN Lexed(Some(Token(Category("LessLessEqual"), start, p + 2)), p + 2)
             ELSE Lexed(Some(Token(Category("LessLess"), start, p + 1)), p + 1)
        [] OTHER -> Lexed(Some(Token(Category("Less"), start, p)), p)

\* String::replace of a pattern of two characters by one character, from
\* the left.
Replace(text, from, to) ==
  LET replaced[rest \in Seq(Chars)] ==
        IF Len(rest) < 2 THEN rest
        ELSE IF SubSeq(rest, 1, 2) = from
        THEN <<to>> \o replaced[SubSeq(rest, 3, Len(rest))]
        ELSE <<rest[1]>> \o replaced[Tail(rest)]
  IN  replaced[text]

\* The replacements tokenize_string makes in an Unquotable string, in order.
Unescaped(raw) ==
  Replace(Replace(Replace(Replace(Replace(Replace(raw,
    <<"\\", "n">>, "\n"), <<"\\", "\\">>, "\\"), <<"\\", "\"">>, "\""),
    <<"\\", "'">>, "'"), <<"\\", "r">>, "\r"), <<"\\", "t">>, "\t")

\* tokenize_string leaving the cursor behind the opening quote of a string
\* that is not closed.
tokenize_string_rewinding(c, start, string_category, stopped) ==
  IF is_eof(c, stopped)
  THEN Lexed(Some(Token(Unclosed(string_category), start, stopped)), start)
  ELSE Lexed(Some(Token(StringCategoryOf(IF string_category = Quotable
                                         THEN lookup(c, start, stopped)
                                         ELSE Unescaped(lookup(c, start, stopped))),
                        start, stopped)),
             stopped + 1)

\* Tokenizer::tokenize_string after skip_while(predicate) has left the cursor
\* at `stopped`; start is the cursor behind the opening quote.
tokenize_string(c, start, string_category, stopped) ==
  IF is_eof(c, stopped)
  THEN Lexed(Some(Token(Unclosed(string_category), start, stopped)), stopped)
  ELSE Lexed(Some(Token(StringCategoryOf(IF string_category = Quotable
                                         THEN lookup(c, start, stopped)
                                         ELSE Unescaped(lookup(c, start, stopped))),
                        start, stopped)),
             stopped + 1)

\* skip_while under a predicate that lets a `"` behind a backslash pass.
SkipUnquotableEscaped(c, p) ==
  LET advanced[q \in p..Len(c)] ==
        IF is_eof(c, q) THEN q
        ELSE IF peek(c, q, 0) = "\"" /\ ~(q > p /\ c[q] = "\\") THEN q
        ELSE advanced[q + 1]
  IN  advanced[p]

\* skip_while under the predicate of the `"` arm, |c| c != '"'
SkipUnquotable(c, p) == skip_while(c, p, Not("\""))

\* SkipQuotable with a back_slash that every backslash sets, also one that
\* is itself escaped.
SkipQuotableUnpaired(c, p, back_slash) ==
  LET advanced[q \in p..Len(c), b \in BOOLEAN] ==
        IF is_eof(c, q) \/ (~b /\ peek(c, q, 0) = "'") THEN q
        ELSE advanced[q + 1, peek(c, q, 0) = "\\"]
  IN  advanced[p, back_slash]

\* skip_while under the predicate of the `'` arm, which keeps in back_slash
\* whether the character before was a backslash that escapes; advanced[q, b]
\* is where the loop ends once the cursor is at q and back_slash is b.
SkipQuotable(c, p, back_slash) ==
  LET advanced[q \in p..Len(c), b \in BOOLEAN] ==
        IF is_eof(c, q) \/ (~b /\ peek(c, q, 0) = "'") THEN q
        ELSE advanced[q + 1, ~b /\ peek(c, q, 0) = "\\"]
  IN  advanced[p, back_slash]

\* Tokenizer::may_parse_ipv4 with the cursor p behind the digits: the
\* address that follows, or None.
may_parse_ipv4(c, p, base, start) ==
  IF base = Base10 /\ peek(c, p, 0) = "." /\ peek(c, p, 1) \in Base10Digits
  THEN LET second == skip_while(c, p + 1, verifier(base))
       IN  IF peek(c, second, 0) = "."
           THEN IF peek(c, second, 1) \in Base10Digits
                THEN LET third == skip_while(c, second + 1, verifier(base))
                     IN  IF peek(c, third, 0) = "." /\ peek(c, third, 1) \in Base10Digits
                         THEN LET fourth == skip_while(c, third + 1, verifier(base))
                              IN  Some(Lexed(Some(Token(Category("IPv4Address"),
                                                        start, fourth)), fourth))
                         ELSE Some(Lexed(Some(Token(Category("IllegalIPv4Address"),
                                                    start, third)), third))
                ELSE Some(Lexed(Some(Token(Category("IllegalIPv4Address"),
                                           start, second)), second))
           ELSE Some(Lexed(Some(Token(Category("IPv4Address"), start, second)),
                           second))
  ELSE None

\* The value of a digit.
DigitValue(ch) ==
  CASE ch \in Base10Digits ->
         CHOOSE d \in 0..9 : <<"0", "1", "2", "3", "4", "5", "6", "7", "8", "9">>[d + 1] = ch
    [] ch \in {"a", "A"} -> 10
    [] ch \in {"b", "B"} -> 11
    [] ch \in {"c", "C"} -> 12
    [] ch \in {"d", "D"} -> 13
    [] ch \in {"e", "E"} -> 14
    [] ch \in {"f", "F"} -> 15

\* The number the digits write in the radix; written[i] is the number of
\* the first i digits.
NumberOf(digits, rdx) ==
  LET written[i \in 0..Len(digits)] ==
        IF i = 0 THEN 0 ELSE written[i - 1] * rdx + DigitValue(digits[i])
  IN  written[Len(digits)]

\* The most digits that write an i64 in every radix up to 16 whatever they
\* are: 16^15 < 2^63.
SafeDigits == 15

\* i64::from_str_radix on digits of the radix: the number, or an error when
\* it does not fit an i64.  Longer texts than SafeDigits are taken to fail.
from_str_radix(digits, rdx) ==
  IF Len(digits) <= SafeDigits THEN Ok(NumberOf(digits, rdx))
  ELSE Err("number too large to fit in target type")

\* tokenize_number once the base is known and the digits are skipped up to p.
ParsedNumber(c, p, base, start, address) ==
  IF address # None THEN address[1]
  ELSE IF start = p THEN Lexed(Some(Token(IllegalNumber(base), start, start)), p)
  ELSE IF from_str_radix(lookup(c, start, p), radix(base)).k = "Ok"
  THEN Lexed(Some(Token(NumberCategory(from_str_radix(lookup(c, start, p),
                                                       radix(base)).v),
                        start, p)), p)
  ELSE Lexed(Some(Token(IllegalNumber(base), start, start)), p)

\* tokenize_number from the base on: may_base is None or Some of the base,
\* the cursor behind its prefix and the start behind it.
BasedNumber(c, may_base) ==
  IF may_base = None THEN None
  ELSE Some(ParsedNumber(c, skip_while(c, may_base[1].p, verifier(may_base[1].base)),
                         may_base[1].base, may_base[1].start,
                         may_parse_ipv4(c, skip_while(c, may_base[1].p,
                                                      verifier(may_base[1].base)),
                                        may_base[1].base, may_base[1].start)))

\* MayBase dropping two characters before an octal number.
MayBaseDroppingTwo(c, p, start, current) ==
  IF current = "0"
  THEN CASE peek(c, p, 0) = "b" -> Some([base |-> Binary, p |-> p + 1, start |-> start + 2])
         [] peek(c, p, 0) = "x" -> Some([base |-> Hex, p |-> p + 1, start |-> start + 2])
         [] peek(c, p, 0) \in verify_octal ->
              Some([base |-> Octal, p |-> p, start |-> start + 2])
         [] peek(c, p, 0) \in Alphabetic -> None
         [] OTHER -> Some([base |-> Base10, p |-> p, start |-> start])
  ELSE Some([base |-> Base10, p |-> p, start |-> start])

\* The base tokenize_number finds for the digit `current` with the cursor p
\* behind it, or None.
MayBase(c, p, start, current) ==
  IF current = "0"
  THEN CASE peek(c, p, 0) = "b" -> Some([base |-> Binary, p |-> p + 1, start |-> start + 2])
         [] peek(c, p, 0) = "x" -> Some([base |-> Hex, p |-> p + 1, start |-> start + 2])
         [] peek(c, p, 0) \in verify_octal ->
              Some([base |-> Octal, p |-> p, start |-> start + 1])
         [] peek(c, p, 0) \in Alphabetic -> None
         [] OTHER -> Some([base |-> Base10, p |-> p, start |-> start])
  ELSE Some([base |-> Base10, p |-> p, start |-> start])

\* tokenize_number with an UnknownBase that takes in the letter.
tokenize_number_over_letter(c, p, start, current) ==
  LET based == BasedNumber(c, MayBase(c, p, start, current))
  IN  IF based # None THEN based[1]
      ELSE Lexed(Some(Token(Category("UnknownBase"), start, p + 1)), p)

\* Tokenizer::tokenize_number
tokenize_number(c, p, start, current) ==
  LET based == BasedNumber(c, MayBase(c, p, start, current))
  IN  IF based # None THEN based[1]
      ELSE Lexed(Some(Token(Category("UnknownBase"), start, p)), p)

\* Tokenizer::tokenize_identifier
tokenize_identifier(c, p, start) ==
  LET end == skip_while(c, p, Alphabetic \cup {"_"} \cup Base10Digits)
      spaced == skip_while(c, end, Whitespace)
  IN  IF lookup(c, start, end) # <<"x">>
      THEN Lexed(Some(Token(Identifier(IdentifierTypeNew(lookup(c, start, end))),
                            start, end)), end)
      ELSE IF peek(c, spaced, 0) \in Base10Digits
      THEN Lexed(Some(Token(Category("X"), start, end)), spaced)
      ELSE Lexed(Some(Token(Identifier([t |-> "Undefined", s |-> <<"x">>]),
                            start, end)), spaced)

\* The arms of next that yield one category whatever follows.
SingleSymbols ==
  "(" :> "LeftParen" @@ ")" :> "RightParen" @@ "[" :> "LeftBrace"
  @@ "]" :> "RightBrace" @@ "{" :> "LeftCurlyBracket"
  @@ "}" :> "RightCurlyBracket" @@ "," :> "Comma" @@ "." :> "Dot"
  @@ ";" :> "Semicolon" @@ ":" :> "DoublePoint" @@ "~" :> "Tilde"
  @@ "^" :> "Caret"

\* The arms of next under the macro two_symbol_token!: the category of the
\* symbol alone, and those of the symbol with the character after it.
TwoSymbols ==
  "-" :> [single |-> "Minus", two |-> "-" :> "MinusMinus" @@ "=" :> "MinusEqual"]
  @@ "+" :> [single |-> "Plus", two |-> "+" :> "PlusPlus" @@ "=" :> "PlusEqual"]
  @@ "%" :> [single |-> "Percent", two |-> "=" :> "PercentEqual"]
  @@ "/" :> [single |-> "Slash", two |-> "=" :> "SlashEqual"]
  @@ "*" :> [single |-> "Star", two |-> "*" :> "StarStar" @@ "=" :> "StarEqual"]
  @@ "&" :> [single |-> "Ampersand", two |-> "&" :> "AmpersandAmpersand"]
  @@ "|" :> [single |-> "Pipe", two |-> "|" :> "PipePipe"]
  @@ "!" :> [single |-> "Bang", two |-> "=" :> "BangEqual" @@ "~" :> "BangTilde"]
  @@ "=" :> [single |-> "Equal", two |-> "=" :> "EqualEqual" @@ "~" :> "EqualTilde"]

\* The macro two_symbol_token!
two_symbol_token(c, p, start, arm) ==
  IF peek(c, p, 0) \in DOMAIN arm.two
  THEN Lexed(Some(Token(Category(arm.two[peek(c, p, 0)]), start, p + 1)), p + 1)
  ELSE Lexed(Some(Token(Category(arm.single), start, p)), p)

\* The match of next on the character `current` read at start, with the
\* cursor p behind it.
Matched(c, p, start, current) ==
  CASE current \in DOMAIN SingleSymbols ->
         Lexed(Some(Token(Category(SingleSymbols[current]), start, p)), p)
    [] current = "#" ->
         Lexed(Some(Token(Category("Comment"), start, skip_while(c, p, Not("\n")))),
               skip_while(c, p, Not("\n")))
    [] current \in DOMAIN TwoSymbols -> two_symbol_token(c, p, start, TwoSymbols[current])
    [] current = ">" -> tokenize_greater(c, p)
    [] current = "<" -> tokenize_less(c, p)
    [] current = "\"" -> tokenize_string(c, p, Unquotable, SkipUnquotable(c, p))
    [] current = "'" -> tokenize_string(c, p, Quotable, SkipQuotable(c, p, FALSE))
    [] current \in Base10Digits -> tokenize_number(c, p, start, current)
    [] current \in Alphabetic \cup {"_"} -> tokenize_identifier(c, p, start)
    [] OTHER -> Lexed(Some(Token(Category("UnknownSymbol"), start, p)), p)

\* next once the whitespace is skipped up to start: None at the end of the
\* source.
Advanced(c, start) ==
  IF is_eof(c, start) THEN Lexed(None, start)
  ELSE Matched(c, start + 1, start, c[start + 1])

\* Iterator for Tokenizer: next
next(c, p) == Advanced(c, skip_while(c, p, Whitespace))

\* -------------------------------------------------------------- inputs
\* The statements handed to the interpreter, as the parser builds them, and
\* the root frames an embedder hands to Interpreter::new.

Num(n) == Primitive(NumberToken(I64(n)))
Str(s) == Primitive(StringToken(s))
Var(name) == Variable(IdentToken(name))
Neg(n) == Operator("Minus", <<Num(n)>>)
Elem(name, pos) == ArrayStmt(IdentToken(name), Some(pos))
Set(left, right) == Assign("Equal", "AssignReturn", left, right)
Inc(order, left) == Assign("PlusPlus", order, left, NoOp)

\* The largest number of top-level statements one interpreter resolves.
MaxSteps == 1

\* The largest array index written or read.
MaxIndex == 2

\* The largest repeat count of the x operator.
MaxRepeat == 3

InitialFrames ==
  {EmptyFrame,
   "a" :> ValueSlot(Number(I64(20))) @@ "b" :> ValueSlot(Number(I64(2))),
   "a" :> ValueSlot(Number(I64(-2))) @@ "b" :> ValueSlot(Number(I64(2))),
   "a" :> ValueSlot(Number(I64_MAX)) @@ "b" :> ValueSlot(Number(I64(2))),
   "a" :> ValueSlot(String("hello")) @@ "b" :> ValueSlot(String("lo")),
   "a" :> ValueSlot(Array(<<Number(I64(1)), String("hello")>>))
     @@ "b" :> ValueSlot(Number(I64(1))),
   "a" :> ValueSlot(Dict("k" :> Number(I64(1)) @@ "0" :> String("hello")))
     @@ "b" :> ValueSlot(String("k")),
   "a" :> FunctionSlot}

PrimitiveTokens ==
  {NumberToken(I64(0)), StringToken("hello"), IdentToken("a"), KeywordToken("if")}

Positions == {Num(i) : i \in 0..MaxIndex} \cup {Neg(1), Str("k"), Str("0")}

Targets == {Var("a")} \cup {Elem("a", p) : p \in Positions}

Values == {Num(12), Str("hello"), Var("b")}

CompoundCategories == AssignCategories \ {"Equal", "PlusPlus", "MinusMinus"}

CompoundTargets == {Var("a"), Elem("a", Num(0))}

CompoundValues == {Num(0), Var("b")}

IncrementTargets ==
  {Var("a"), Elem("a", Num(0)), Elem("a", Num(MaxIndex)), Elem("a", Str("k"))}

\* Left sides that are targets and left sides that are none, and right sides
\* without an effect, with one (`c` is bound in no initial frame), and one
\* that reads the target.
LeftSides ==
  {Var("a"), Elem("a", Num(0)), ArrayStmt(IdentToken("a"), None),
   Primitive(IdentToken("a"))}

RightSides == {Num(12), Set(Var("c"), Num(7)), Var("a")}

Operands == {<<Neg(2), Num(2)>>, <<Var("a"), Var("b")>>, <<Var("a")>>}

\* && and || over operands that succeed or fail, with and without an effect
\* on the register: `c` is bound in no initial frame.
LogicalCategories == {"AmpersandAmpersand", "PipePipe"}

LogicalLefts == {Num(0), Num(1), Var("c"), Set(Var("c"), Num(0))}

LogicalRights == {Num(0), Var("c"), Set(Var("c"), Num(7))}

NumericCategories ==
  {"Slash", "Percent", "LessLess", "GreaterGreater", "GreaterGreaterGreater",
   "StarStar"}

Counts == {Num(0), Num(31), Num(32), Neg(1)}

Repeatables ==
  {Inc("ReturnAssign", Var("a")),
   Assign("PlusEqual", "AssignReturn", Elem("a", Num(0)), Num(2))}

\* `a = 0; x = a++; y = a;` and `a = 0; x = ++a; y = a;`
PostfixScenario ==
  <<Set(Var("a"), Num(0)), Set(Var("x"), Inc("ReturnAssign", Var("a"))),
    Set(Var("y"), Var("a"))>>

PrefixScenario ==
  <<Set(Var("a"), Num(0)), Set(Var("x"), Inc("AssignReturn", Var("a"))),
    Set(Var("y"), Var("a"))>>

Blocks ==
  {<<>>, PostfixScenario, PrefixScenario,
   <<Set(Var("a"), Num(12)), Set(Elem("a", Num(2)), Num(12)), Var("a")>>,
   <<Set(Var("b"), Num(1)), ExitStmt(Num(2)), Set(Var("b"), Num(3))>>,
   <<Block(<<ExitStmt(Var("b"))>>), Set(Var("b"), Num(3))>>,
   <<Set(Var("b"), Num(1)), Unimplemented("Return"), Set(Var("b"), Num(3))>>,
   <<Set(Var("b"), Num(1)), Var("c"), Set(Var("b"), Num(3))>>}

\* ------------------------------------------------------------- actions

\* Interpreter::new: the register holds the root frame made of `initial`;
\* the build is with or without overflow checks.
Init ==
  /\ \E initial \in InitialFrames :
       /\ reg = create_root(initial)
       /\ last = [stmt |-> NoOp, before |-> create_root(initial), res |-> Ok(Null)]
  /\ overflow_checks \in BOOLEAN
  /\ status = "running"
  /\ steps = 0
  /\ NoTokenizer
  /\ NoRawIp
  /\ NoLexer

\* The embedder may call while the process lives and statements are left.
Callable == status = "running" /\ steps < MaxSteps

\* What a call leaves in the state: o is the register and the result of
\* resolving the statement.  A panic ends the process.
Returned(statement, o) ==
  /\ reg' = o.reg
  /\ last' = [stmt |-> statement, before |-> reg, res |-> o.res]
  /\ status' = IF o.res.k = "Panic" THEN "panicked" ELSE "running"
  /\ steps' = steps + 1
  /\ UNCHANGED overflow_checks
  /\ UNCHANGED tokenizer
  /\ UNCHANGED raw_ip
  /\ UNCHANGED lexer

\* One call of Interpreter::resolve by the embedder.
Resolved(statement) == Returned(statement, resolve(statement, reg))

ResolvePrimitive ==
  \E tok \in PrimitiveTokens :
    /\ Callable
    /\ Resolved(Primitive(tok))

ResolveVariable ==
  \E name \in {"a", "b"} :
    /\ Callable
    /\ Resolved(Var(name))

ResolveArray ==
  \E pos \in {None} \cup {Some(p) : p \in Positions \cup {Var("b")}} :
    /\ Callable
    /\ Resolved(ArrayStmt(IdentToken("a"), pos))

ResolveAssign ==
  \E left \in Targets, right \in Values :
    /\ Callable
    /\ Resolved(Set(left, right))

ResolveCompound ==
  \E category \in CompoundCategories :
    \E left \in CompoundTargets, right \in CompoundValues :
      /\ Callable
      /\ Resolved(Assign(category, "AssignReturn", left, right))

ResolveTarget ==
  \E category \in {"Equal", "PlusEqual", "PlusPlus"} :
    \E left \in LeftSides, right \in RightSides :
      /\ Callable
      /\ Resolved(Assign(category, "AssignReturn", left, right))

ResolveIncrement ==
  \E category \in {"PlusPlus", "MinusMinus"} :
    \E order \in {"AssignReturn", "ReturnAssign"}, left \in IncrementTargets :
      /\ Callable
      /\ Resolved(Assign(category, order, left, NoOp))

ResolveOperator ==
  \E category \in ExecuteCategories, stmts \in Operands :
    /\ Callable
    /\ Resolved(Operator(category, stmts))

ResolveLogical ==
  \E category \in LogicalCategories :
    \E left \in LogicalLefts, right \in LogicalRights :
      /\ Callable
      /\ Resolved(Operator(category, <<left, right>>))

ResolveNumeric ==
  \E category \in NumericCategories, count \in Counts :
    /\ Callable
    /\ Resolved(Operator(category, <<Var("a"), count>>))

ResolveRepeat ==
  \E repeatable \in Repeatables :
    \E n \in {Num(i) : i \in 0..MaxRepeat} \cup {Neg(1)} :
      /\ Callable
      /\ Resolved(Operator("X", <<repeatable, n>>))

ResolveIf ==
  \E cond \in {Num(0), Num(1), Var("a")} :
    \E else \in {None, Some(Set(Var("a"), Num(2)))} :
      /\ Callable
      /\ Resolved(If(cond, Set(Var("a"), Num(1)), else))

ResolveBlock ==
  \E stmts \in Blocks :
    /\ Callable
    /\ Resolved(Block(stmts))

ResolveExit ==
  \E rc \in {Num(0), Neg(1), Str("hello"), Var("a")} :
    /\ Callable
    /\ Resolved(ExitStmt(rc))

ResolveParameter ==
  \E stmts \in {<<>>, <<Num(1), Inc("ReturnAssign", Var("a"))>>} :
    /\ Callable
    /\ Resolved(Parameter(stmts))

ResolveNoOp ==
  /\ Callable
  /\ Resolved(NoOp)

ResolveUnimplemented ==
  \E kind \in TodoKinds :
    /\ Callable
    /\ Resolved(Unimplemented(kind))

Next ==
  \/ ResolvePrimitive
  \/ ResolveVariable
  \/ ResolveArray
  \/ ResolveAssign
  \/ ResolveCompound
  \/ ResolveIncrement
  \/ ResolveTarget
  \/ ResolveOperator
  \/ ResolveLogical
  \/ ResolveNumeric
  \/ ResolveRepeat
  \/ ResolveIf
  \/ ResolveBlock
  \/ ResolveExit
  \/ ResolveParameter
  \/ ResolveNoOp
  \/ ResolveUnimplemented

Spec == Init /\ [][Next]_vars

\* --------------------------------------------------------------- loops
\* The loops of loop_extension.rs, each called on an interpreter of its own.

Less(left, right) == Operator("Less", <<left, right>>)
Greater(left, right) == Operator("Greater", <<left, right>>)
AddTo(name, right) == Assign("PlusEqual", "AssignReturn", Var(name), right)
Dec(name) == Assign("MinusMinus", "ReturnAssign", Var(name), NoOp)

\* The largest limit a counting loop runs to.
MaxLoop == 5

\* The value the descending loops start from.
StartValue == 10

LoopFrames ==
  {EmptyFrame,
   "a" :> ValueSlot(Number(I64(0))) @@ "i" :> ValueSlot(Number(I64(StartValue)))
     @@ "arr" :> ValueSlot(Array(<<Number(I64(3)), Number(I64(5))>>))
     @@ "n" :> ValueSlot(Null),
   "a" :> ValueSlot(Number(I64(1))) @@ "i" :> ValueSlot(Number(I64(StartValue)))
     @@ "arr" :> ValueSlot(Array(<<Number(I64(3)), Number(I64(5)), Number(I64(4))>>))
     @@ "n" :> ValueSlot(Null),
   "a" :> ValueSlot(Number(I64(0))) @@ "i" :> ValueSlot(Number(I64(StartValue)))
     @@ "arr" :> ValueSlot(Dict("k" :> Number(I64(5))))
     @@ "n" :> ValueSlot(Null)}

\* What the body does once its guard holds: nothing, a control statement, or
\* an error (c is unbound).
Controls ==
  {NoOp, BreakStmt, ContinueStmt, ExitStmt(Num(7)), ReturnStmt(Var("a")), Var("c")}

\* `{ a += i; if (i > 2) <control>; }`
CountingBodies ==
  {Block(<<AddTo("a", Var("i")), If(Greater(Var("i"), Num(2)), ctrl, None)>>) :
     ctrl \in Controls}
  \cup {Block(<<AddTo("a", Var("i"))>>), BreakStmt, ExitStmt(Var("i"))}

\* `{ a += i; i--; if (i < 9) <control>; }`
DescendingBodies ==
  {Block(<<AddTo("a", Var("i")), Dec("i"),
           If(Less(Var("i"), Num(StartValue - 1)), ctrl, None)>>) :
     ctrl \in Controls}
  \cup {Block(<<AddTo("a", Var("i")), Dec("i")>>), ReturnStmt(Var("i"))}

\* `{ a += i; if (i > 3) <control>; }`, a body that assigns to the iteration
\* variable, and bodies that change the variable iterated over.
ElementBodies ==
  {Block(<<AddTo("a", Var("i")), If(Greater(Var("i"), Num(3)), ctrl, None)>>) :
     ctrl \in Controls}
  \cup {Block(<<AddTo("a", Var("i"))>>),
        Block(<<AddTo("a", Var("i")), Set(Var("i"), Num(0))>>),
        Block(<<AddTo("a", Var("i")), Set(Var("arr"), Num(0))>>),
        Block(<<AddTo("a", Var("i")), Set(Elem("arr", Num(0)), Num(9)),
                Set(Elem("arr", Num(MaxIndex + 1)), Num(9))>>)}

\* The registers a loop is called on: at the top level, and inside a function
\* call that has pushed a frame of its own.
LoopRegisters ==
  {create_root(initial) : initial \in LoopFrames}
  \cup {create_child(create_root(initial), EmptyFrame) :
          initial \in LoopFrames \ {EmptyFrame}}

LoopInit ==
  /\ \E initial \in LoopRegisters :
       /\ reg = initial
       /\ last = [stmt |-> NoOp, before |-> initial, res |-> Ok(Null),
                  log |-> <<>>]
  /\ overflow_checks \in BOOLEAN
  /\ status = "running"
  /\ steps = 0
  /\ NoTokenizer
  /\ NoRawIp
  /\ NoLexer

\* What a call of a loop leaves in the state; a loop that does not end keeps
\* the interpreter.
LoopReturned(statement, o) ==
  /\ reg' = o.reg
  /\ last' = [stmt |-> statement, before |-> reg, res |-> o.res, log |-> o.log]
  /\ status' = CASE o.res.k = "Panic" -> "panicked"
                  [] o.res.k = "Running" -> "looping"
                  [] OTHER -> "running"
  /\ steps' = steps + 1
  /\ UNCHANGED overflow_checks
  /\ UNCHANGED tokenizer
  /\ UNCHANGED raw_ip
  /\ UNCHANGED lexer

\* `for (i = 1; i < limit; i++) body`
CallForLoop ==
  \E limit \in 1..MaxLoop, body \in CountingBodies :
    /\ Callable
    /\ LoopReturned(For(Set(Var("i"), Num(1)), Less(Var("i"), Num(limit)),
                        Inc("ReturnAssign", Var("i")), body),
                    for_loop(reg, Set(Var("i"), Num(1)), Less(Var("i"), Num(limit)),
                             Inc("ReturnAssign", Var("i")), body))

\* `while (i > limit) body`
CallWhileLoop ==
  \E limit \in (StartValue - MaxLoop + 2)..StartValue, body \in DescendingBodies :
    /\ Callable
    /\ LoopReturned(While(Greater(Var("i"), Num(limit)), body),
                    while_loop(reg, Greater(Var("i"), Num(limit)), body, <<>>))

\* `repeat body until (i > 0)` and `repeat body until (i < limit)`
CallRepeatLoop ==
  \E condition \in {Greater(Var("i"), Num(0))}
                   \cup {Less(Var("i"), Num(limit)) :
                           limit \in (StartValue - MaxLoop + 2)..(StartValue - 1)} :
    \E body \in DescendingBodies :
      /\ Callable
      /\ LoopReturned(Repeat(body, condition),
                      repeat_loop(reg, body, condition, <<>>))

\* `foreach i (iterable) body`
CallForEachLoop ==
  \E variable \in {IdentToken("i"), NumberToken(I64(0))} :
    \E iterable \in {Var("arr"), Var("a"), Var("n"), Var("c")} :
      \E body \in ElementBodies :
        /\ Callable
        /\ LoopReturned(ForEach(variable, iterable, body),
                        for_each_loop(reg, variable, iterable, body))

LoopNext ==
  \/ CallForLoop
  \/ CallWhileLoop
  \/ CallRepeatLoop
  \/ CallForEachLoop

LoopSpec == LoopInit /\ [][LoopNext]_vars

\* ----------------------------------------------------------- tokenizer
\* Tokenizer::next called on a source until it returns None.

\* The longest sources of each kind.
MaxOperators == 4
MaxString == 4
MaxNumber == 4
MaxAddress == 7
MaxWord == 3

\* The sequences of at most n characters of the alphabet.
Texts(alphabet, n) == UNION {[1..m -> alphabet] : m \in 0..n}

\* Sources of comparison and shift operators, of string literals, of number
\* literals, of addresses, and of words, comments and other symbols.
Sources ==
  Texts({">", "<", "=", "!", " "}, MaxOperators)
  \cup Texts({"\"", "'", "\\", "n"}, MaxString)
  \cup Texts({"0", "8", "b", "x", "g"}, MaxNumber)
  \cup Texts({"1", "."}, MaxAddress)
  \cup Texts({"i", "f", "x", " ", "1", "#", "\n"}, MaxWord)

\* There is no tokenizer yet, and no interpreter.
TokInit ==
  /\ NoTokenizer
  /\ NoRawIp
  /\ NoLexer
  /\ reg = create_root(EmptyFrame)
  /\ last = [stmt |-> NoOp, before |-> create_root(EmptyFrame), res |-> Ok(Null)]
  /\ overflow_checks = FALSE
  /\ status = "idle"
  /\ steps = 0

\* Tokenizer::new on a source
TokenizerNew ==
  /\ status = "idle"
  /\ code' \in Sources
  /\ cursor' = 0
  /\ calls' = <<>>
  /\ ended' = FALSE
  /\ status' = "tokenizing"
  /\ UNCHANGED <<reg, overflow_checks, last, steps>>
  /\ UNCHANGED raw_ip
  /\ UNCHANGED lexer

\* The character next reads: the first after the whitespace, if there is one.
Current ==
  IF is_eof(code, skip_while(code, cursor, Whitespace)) THEN None
  ELSE Some(code[skip_while(code, cursor, Whitespace) + 1])

\* What a call of next leaves in the state.
Yield(o) ==
  /\ cursor' = o.cursor
  /\ calls' = IF o.token = None THEN calls
              ELSE Append(calls, [before |-> cursor, token |-> o.token[1],
                                  after |-> o.cursor])
  /\ ended' = (o.token = None)
  /\ UNCHANGED code
  /\ UNCHANGED interpreter
  /\ UNCHANGED raw_ip
  /\ UNCHANGED lexer

\* next reads a character of the arms in `arm`.
Reads(arm) ==
  status = "tokenizing" /\ ~ended /\ Current # None /\ Current[1] \in arm

NextSingleSymbol ==
  /\ Reads(DOMAIN SingleSymbols)
  /\ \E o \in {next(code, cursor)} : Yield(o)

NextComment ==
  /\ Reads({"#"})
  /\ \E o \in {next(code, cursor)} : Yield(o)

NextTwoSymbol ==
  /\ Reads(DOMAIN TwoSymbols)
  /\ \E o \in {next(code, cursor)} : Yield(o)

NextGreater ==
  /\ Reads({">"})
  /\ \E o \in {next(code, cursor)} : Yield(o)

NextLess ==
  /\ Reads({"<"})
  /\ \E o \in {next(code, cursor)} : Yield(o)

NextUnquotable ==
  /\ Reads({"\""})
  /\ \E o \in {next(code, cursor)} : Yield(o)

NextQuotable ==
  /\ Reads({"'"})
  /\ \E o \in {next(code, cursor)} : Yield(o)

NextNumber ==
  /\ Reads(Base10Digits)
  /\ \E o \in {next(code, cursor)} : Yield(o)

NextIdentifier ==
  /\ Reads(Alphabetic \cup {"_"})
  /\ \E o \in {next(code, cursor)} : Yield(o)

NextUnknownSymbol ==
  /\ Reads(Chars \ (DOMAIN SingleSymbols \cup DOMAIN TwoSymbols \cup Base10Digits
                    \cup Alphabetic \cup {"#", ">", "<", "\"", "'", "_"}))
  /\ \E o \in {next(code, cursor)} : Yield(o)

\* next at the end of the source.
NextNone ==
  /\ status = "tokenizing"
  /\ Current = None
  /\ \E o \in {next(code, cursor)} : Yield(o)

TokNext ==
  \/ TokenizerNew
  \/ NextSingleSymbol
  \/ NextComment
  \/ NextTwoSymbol
  \/ NextGreater
  \/ NextLess
  \/ NextUnquotable
  \/ NextQuotable
  \/ NextNumber
  \/ NextIdentifier
  \/ NextUnknownSymbol
  \/ NextNone

TokSpec == TokInit /\ [][TokNext]_vars

\* A call of next on the tokenizer.
CallNext ==
  /\ status = "tokenizing"
  /\ \E o \in {next(code, cursor)} : Yield(o)

\* The caller, once it has a tokenizer, calls next until it returns None.
TokFair == TokSpec /\ WF_vars(CallNext)

\* ---------------------------------------------- assignments under frames
\* Statements resolved while function calls are under way: the register holds
\* the root frame and the frames of the calls above it.

MaxFrames == 3

\* The frames a register may hold at the level (0 the root): each binds
\* `a`, `b` or both, to values that tell the level.
FramesAt(level) ==
  {"a" :> ValueSlot(Number(I64(10 + level))),
   "b" :> ValueSlot(Number(I64(20 + level))),
   "a" :> ValueSlot(Array(<<Number(I64(level))>>)) @@ "b" :> ValueSlot(Number(I64(0)))}

\* The registers of up to MaxFrames frames; stacked[n] are those of n frames.
Stacks ==
  LET stacked[n \in 1..MaxFrames] ==
        IF n = 1 THEN {create_root(initial) : initial \in FramesAt(0)}
        ELSE {create_child(r, frame) : r \in stacked[n - 1], frame \in FramesAt(n - 1)}
  IN  UNION {stacked[n] : n \in 1..MaxFrames}

FrameInit ==
  /\ reg \in Stacks
  /\ last = [stmt |-> NoOp, before |-> reg, res |-> Ok(Null)]
  /\ overflow_checks \in BOOLEAN
  /\ status = "running"
  /\ steps = 0
  /\ NoTokenizer
  /\ NoRawIp
  /\ NoLexer

FrameNext ==
  \/ ResolveVariable
  \/ ResolveAssign
  \/ ResolveCompound
  \/ ResolveIncrement

FrameSpec == FrameInit /\ [][FrameNext]_vars

\* ------------------------------------------------- nasl-builtin-raw-ip
\* RawIp composes the functions of frame_forgery and of packet_forgery.  The
\* tables of the two modules are any sets of names; a function that is
\* invoked returns a value or an error.

FunctionNames == {"send_frame", "forge_frame", "forge_ip_packet"}
FunctionResults == {Ok(Null), Err("wrong argument")}

\* frame_forgery::lookup: the function of the name, if the module has one
frame_forgery_lookup(name) ==
  IF name \in frame_forgery
  THEN Some([module |-> "frame_forgery", name |-> name])
  ELSE None

\* packet_forgery::lookup
packet_forgery_lookup(name) ==
  IF name \in packet_forgery
  THEN Some([module |-> "packet_forgery", name |-> name])
  ELSE None

\* What a call on RawIp has done: the functions it invoked, in order, and
\* what it returned.
Dispatch(invoked, result) == [invoked |-> invoked, result |-> result]

\* nasl_fn_execute with Option::or in place of Option::or_else: the function
\* of packet_forgery is invoked before the result of frame_forgery is looked at.
nasl_fn_execute_eagerly(name, frame_result, packet_result) ==
  LET first == frame_forgery_lookup(name)
      second == packet_forgery_lookup(name)
  IN  Dispatch(first \o second,
               IF first # None THEN Some(frame_result)
               ELSE IF second # None THEN Some(packet_result)
               ELSE None)

\* RawIp::nasl_fn_execute; frame_result and packet_result are what the
\* function of either module returns when it is invoked.
nasl_fn_execute(name, frame_result, packet_result) ==
  LET first == frame_forgery_lookup(name)
      second == packet_forgery_lookup(name)
  IN  IF first # None THEN Dispatch(first, Some(frame_result))
      ELSE IF second # None THEN Dispatch(second, Some(packet_result))
      ELSE Dispatch(<<>>, None)

\* RawIp::nasl_fn_defined
nasl_fn_defined(name) ==
  (IF frame_forgery_lookup(name) # None THEN frame_forgery_lookup(name)
   ELSE packet_forgery_lookup(name)) # None

\* There is a RawIp over some tables of functions, and nothing else.
RawIpInit ==
  /\ frame_forgery \in SUBSET FunctionNames
  /\ packet_forgery \in SUBSET FunctionNames
  /\ dispatched = None
  /\ NoTokenizer
  /\ NoLexer
  /\ reg = create_root(EmptyFrame)
  /\ last = [stmt |-> NoOp, before |-> create_root(EmptyFrame), res |-> Ok(Null)]
  /\ overflow_checks = FALSE
  /\ status = "dispatching"
  /\ steps = 0

\* What a call on RawIp leaves in the state.
Dispatched(call, name, done) ==
  /\ dispatched' = Some([call |-> call, name |-> name, invoked |-> done.invoked,
                         result |-> done.result])
  /\ UNCHANGED <<frame_forgery, packet_forgery>>
  /\ UNCHANGED interpreter
  /\ UNCHANGED tokenizer
  /\ UNCHANGED lexer

\* The interpreter calls a built-in function by name.
NaslFnExecute ==
  /\ status = "dispatching"
  /\ \E name \in FunctionNames, frame_result, packet_result \in FunctionResults :
       Dispatched("nasl_fn_execute", name,
                  nasl_fn_execute(name, frame_result, packet_result))

\* The interpreter asks whether a name is a built-in function.
NaslFnDefined ==
  /\ status = "dispatching"
  /\ \E name \in FunctionNames :
       Dispatched("nasl_fn_defined", name,
                  Dispatch(<<>>, Some(nasl_fn_defined(name))))

RawIpNext ==
  \/ NaslFnExecute
  \/ NaslFnDefined

RawIpSpec == RawIpInit /\ [][RawIpNext]_vars

\* ------------------------------------- postfix_extension.rs, prefix_extension.rs
\* The prefix and the postfix dispatch of the Lexer on `++` and `--`.
\* operation.rs and variable_extension.rs are not among the sources;
\* Operation::new and Lexer::parse_variable are after the specification.

Continue == [end |-> "Continue"]
DoneAt(category) == [end |-> "Done", category |-> category]

\* The macros unexpected_token! and unexpected_end!
unexpected_token(token) == [kind |-> "UnexpectedToken", token |-> token]
unexpected_end(reason) == [kind |-> "UnexpectedEnd", reason |-> reason]

\* Statement::Call, Statement::NoOp(Some(token)), and Statement::Array with
\* the token that ends it
CallStmt(tok, arguments) == [k |-> "Call", tok |-> tok, arguments |-> arguments]
NoOpOf(token) == [k |-> "NoOp", token |-> token]
ArrayEnded(tok, pos, end) == [k |-> "Array", tok |-> tok, pos |-> pos, end |-> end]

\* What parsing a statement leaves: End and the statement.
Parse(end, stmt) == [end |-> end, stmt |-> stmt]

OperatorCategories == {"Plus", "Minus", "Tilde", "Bang", "Star", "Slash"}
GroupingCategories == {"LeftParen", "LeftCurlyBracket", "LeftBrace", "Comma"}
EndCategories == {"Semicolon", "RightParen", "RightBrace", "RightCurlyBracket"}

\* Operation::new: the class of a token by its category, or None.
OperationNew(token) ==
  CASE token.category.c \in OperatorCategories ->
         Some([op |-> "Operator", category |-> token.category])
    [] token.category.c \in {"Number", "String"} -> Some([op |-> "Primitive"])
    [] token.category.c = "Identifier" ->
         IF token.category.id.t = "Undefined" THEN Some([op |-> "Variable"])
         ELSE Some([op |-> "Keyword", keyword |-> token.category.id])
    [] token.category.c \in GroupingCategories ->
         Some([op |-> "Grouping", category |-> token.category])
    [] token.category.c \in AssignCategories ->
         Some([op |-> "Assign", category |-> token.category])
    [] token.category.c \in EndCategories -> Some([op |-> "NoOp"])
    [] OTHER -> None

\* Lexer::parse_variable on the token of an identifier and the tokens after
\* it: `[` opens the index of an Array, `(` the arguments of a Call, and
\* anything else leaves a Variable.  The index is one primitive and the
\* arguments are none.
parse_variable(token, rest) ==
  IF token.category.c # "Identifier" \/ token.category.id.t # "Undefined"
  THEN Err(unexpected_token(token))
  ELSE IF rest # <<>> /\ rest[1].category.c = "LeftBrace"
  THEN IF Len(rest) >= 3 /\ rest[2].category.c \in {"Number", "String"}
          /\ rest[3].category.c = "RightBrace"
       THEN Ok(Parse(Continue, ArrayStmt(token, Some(Primitive(rest[2])))))
       ELSE Err(unexpected_end("parsing array"))
  ELSE IF rest # <<>> /\ rest[1].category.c = "LeftParen"
  THEN IF Len(rest) >= 2 /\ rest[2].category.c = "RightParen"
       THEN Ok(Parse(Continue, CallStmt(token, <<>>)))
       ELSE Err(unexpected_end("parsing call"))
  ELSE Ok(Parse(Continue, Variable(token)))

\* as_assign_statement with the order of the prefix form.
as_assign_statement_assigning_first(lhs, token, category) ==
  IF lhs.k \in {"Variable", "Array"}
  THEN Some(Ok(Parse(Continue, Assign(category, "AssignReturn", lhs, NoOp))))
  ELSE Some(Err(unexpected_token(token)))

\* Lexer::as_assign_statement
as_assign_statement(lhs, token, category) ==
  IF lhs.k \in {"Variable", "Array"}
  THEN Some(Ok(Parse(Continue, Assign(category, "ReturnAssign", lhs, NoOp))))
  ELSE Some(Err(unexpected_token(token)))

\* Postfix::postfix_statement
postfix_statement(op, token, lhs) ==
  IF op.op = "Assign" /\ op.category.c \in {"PlusPlus", "MinusMinus"}
  THEN as_assign_statement(lhs, token, op.category)
  ELSE None

\* Postfix::needs_postfix
needs_postfix(op) ==
  \/ op.op = "Grouping" /\ op.category.c = "Comma"
  \/ op.op = "Assign" /\ op.category.c \in {"MinusMinus", "PlusPlus"}

\* Lexer::parse_prefix_assign_operator; rest are the tokens the Lexer has
\* left behind `token`.
parse_prefix_assign_operator(category, token, rest) ==
  IF rest = <<>> THEN Err(unexpected_end("parsing prefix statement"))
  ELSE LET operand == parse_variable(Head(rest), Tail(rest))
       IN  IF operand.k # "Ok" THEN operand
           ELSE IF operand.v.stmt.k \in {"Variable", "Array"}
           THEN Ok(Assign(category, "AssignReturn", operand.v.stmt, NoOp))
           ELSE Err(unexpected_token(token))

\* Prefix::prefix_statement on a token whose arm does not parse a statement
\* of its own: a primitive, a variable, an category operator or an end.
prefix_statement(token, rest) ==
  LET op == OperationNew(token)
  IN  IF op = None THEN Err(unexpected_token(token))
      ELSE CASE op[1].op = "Primitive" -> Ok(Parse(Continue, Primitive(token)))
             [] op[1].op = "Variable" -> parse_variable(token, rest)
             [] op[1].op = "Assign" ->
                  IF op[1].category.c \in {"MinusMinus", "PlusPlus"}
                  THEN LET stmt == parse_prefix_assign_operator(op[1].category,
                                                                token, rest)
                       IN  IF stmt.k = "Ok" THEN Ok(Parse(Continue, stmt.v))
                           ELSE stmt
                  ELSE Err(unexpected_token(token))
             [] op[1].op = "NoOp" -> Ok(Parse(DoneAt(token.category), NoOpOf(token)))

\* The tokens of `a`, `1`, `++`, `--` and of the other symbols, at byte b.
Word(name, b) == Token(Identifier(IdentifierTypeNew(name)), b, b + Len(name))
Digit(n, b) == Token(NumberCategory(n), b, b + 1)
Symbol(category, b) ==
  Token(Category(category), b,
        b + (IF category \in {"PlusPlus", "MinusMinus", "PlusEqual"} THEN 2 ELSE 1))

\* The tokens behind a prefix operator that ends at byte b: nothing, a
\* variable, an element, a call, a number, and what does not parse.
Following(b) ==
  {<<>>,
   <<Word(<<"a">>, b)>>,
   <<Word(<<"a">>, b), Symbol("Semicolon", b + 1)>>,
   <<Word(<<"a">>, b), Symbol("LeftBrace", b + 1), Digit(0, b + 2),
     Symbol("RightBrace", b + 3)>>,
   <<Word(<<"a">>, b), Symbol("LeftBrace", b + 1), Digit(0, b + 2)>>,
   <<Word(<<"a">>, b), Symbol("LeftParen", b + 1), Symbol("RightParen", b + 2)>>,
   <<Word(<<"a">>, b), Symbol("PlusPlus", b + 1)>>,
   <<Word(<<"i", "f">>, b)>>,
   <<Digit(1, b)>>,
   <<Symbol("LeftParen", b), Word(<<"a">>, b + 1), Symbol("RightParen", b + 2)>>,
   <<Symbol("MinusMinus", b), Word(<<"a">>, b + 2)>>,
   <<Symbol("Semicolon", b)>>}

\* The tokens prefix_statement is called on.
PrefixTokens ==
  {Symbol(category, 0) : category \in {"PlusPlus", "MinusMinus", "PlusEqual",
                                       "Equal", "Semicolon"}}
  \cup {Word(<<"a">>, 0), Digit(1, 0)}

\* The statements that stand before a postfix operator: those the prefix
\* dispatch gives, an element with its end, and compound ones.
Parsed ==
  {parse.v.stmt :
     parse \in {p \in {prefix_statement(token, rest) :
                         token \in {t \in PrefixTokens : OperationNew(t)[1].op # "NoOp"},
                         rest \in Following(2)} : p.k = "Ok"}}
  \cup {ArrayEnded(Word(<<"a">>, 0), Some(Primitive(Digit(1, 2))),
                   Some(Symbol("RightBrace", 3))),
        ArrayEnded(Word(<<"a">>, 0), None, None),
        Operator(Category("Plus"), <<Variable(Word(<<"a">>, 0)), Primitive(Digit(1, 4))>>),
        Operator(Category("Minus"), <<Primitive(Digit(1, 1))>>),
        Block(<<>>), NoOp}

\* The tokens postfix_statement is called on.
PostfixTokens ==
  {Symbol(category, b) : category \in {"PlusPlus", "MinusMinus", "Comma"},
                         b \in {1, 4}}

\* There is a Lexer that has parsed nothing, and nothing else.
LexerInit ==
  /\ NoLexer
  /\ NoRawIp
  /\ NoTokenizer
  /\ reg = create_root(EmptyFrame)
  /\ last = [stmt |-> NoOp, before |-> create_root(EmptyFrame), res |-> Ok(Null)]
  /\ overflow_checks = FALSE
  /\ status = "parsing"
  /\ steps = 0

\* What a dispatch of the Lexer leaves in the state.
Dispatches(dispatch, token, lhs, rest, result) ==
  /\ parsed' = Some([dispatch |-> dispatch, token |-> token, lhs |-> lhs,
                     rest |-> rest, result |-> result])
  /\ UNCHANGED interpreter
  /\ UNCHANGED tokenizer
  /\ UNCHANGED raw_ip

\* The Lexer meets a token where a statement begins.
PrefixStatement ==
  /\ status = "parsing"
  /\ \E token \in PrefixTokens :
       \E rest \in Following(token.position[2]) :
         Dispatches("prefix", token, None, rest, Some(prefix_statement(token, rest)))

\* The Lexer meets a token behind a statement, and the token needs the
\* postfix handling.
PostfixStatement ==
  /\ status = "parsing"
  /\ \E token \in PostfixTokens, lhs \in Parsed :
       /\ needs_postfix(OperationNew(token)[1])
       /\ Dispatches("postfix", token, Some(lhs), <<>>,
                     postfix_statement(OperationNew(token)[1], token, lhs))

LexerNext ==
  \/ PrefixStatement
  \/ PostfixStatement

LexerSpec == LexerInit /\ [][LexerNext]_vars

\* ------------------------------------------------------------ properties

\* A statement has been resolved: last holds it, the register it ran on and
\* its result.
Done == steps > 0

\* The value the register r holds for key: Null when no frame binds it.
Held(r, key) ==
  LET f == named(r, key)
  IN  IF f = None \/ f[1].c # "Value" THEN Null ELSE f[1].val

\* The natural number of a small non-negative i64.
SmallNat(n) == n[1]

\* The value the container c holds at the position p (a String or a small
\* non-negative Number): the element or the entry, Null where there is none.
\* A String position, or any position on a Dict, addresses the entries: those
\* of a Dict, the elements of an Array under their decimal index, a scalar
\* under "0".  A Number position otherwise addresses the elements: those of
\* an Array, a scalar as element 0.
HeldIn(c, p) ==
  IF p.t = "String" \/ c.t = "Dict"
  THEN LET k == IF p.t = "String" THEN p.s ELSE to_string(p)
       IN  CASE c.t = "Dict" -> IF k \in DOMAIN c.d THEN c.d[k] ELSE Null
             [] c.t = "Array" ->
                  IF \E i \in 1..Len(c.a) : NatToString(i - 1) = k
                  THEN c.a[CHOOSE i \in 1..Len(c.a) : NatToString(i - 1) = k]
                  ELSE Null
             [] c.t = "Null" -> Null
             [] OTHER -> IF k = "0" THEN c ELSE Null
  ELSE CASE c.t = "Array" ->
              IF SmallNat(p.n) < Len(c.a) THEN c.a[SmallNat(p.n) + 1] ELSE Null
         [] OTHER -> IF SmallNat(p.n) = 0 THEN c ELSE Null

\* The value the register r holds at the target of an assignment: a variable,
\* or an element whose position is a literal.
HeldAt(left, r) ==
  IF left.k = "Variable" THEN Held(r, left.tok.id)
  ELSE HeldIn(Held(r, left.tok.id), ValueOfToken(left.pos[1].tok).v)

\* The last statement is `++` or `--` on a variable or on an element at a
\* literal position.
IsIncrement ==
  /\ Done
  /\ last.stmt.k = "Assign"
  /\ last.stmt.cat \in {"PlusPlus", "MinusMinus"}
  /\ \/ last.stmt.left.k = "Variable"
     \/ /\ last.stmt.left.k = "Array"
        /\ last.stmt.left.pos # None
        /\ last.stmt.left.pos[1].k = "Primitive"

\* to_i64(prev) + 1, or - 1, in the i64 arithmetic of a build that wraps.
Stepped(category, prev) ==
  Number(AddW(ToI64(prev),
              IF category = "PlusPlus" THEN I64_ONE ELSE I64_MINUS_ONE, 0).v)

\* C1: for a variable or an array/dict element, postfix `++`/`--` (order
\* ReturnAssign) returns the value held before and prefix `++`/`--` (order
\* AssignReturn) returns the newly stored value; either way the slot then
\* holds to_i64(previous) + 1 (resp. - 1).  After `a = 0; x = a++; y = a;`
\* x = 0 and y = 1; after `a = 0; x = ++a; y = a;` x = 1 and y = 1.
C1_IncrementReturnsByOrder ==
  /\ (IsIncrement /\ last.res.k = "Ok") =>
       /\ HeldAt(last.stmt.left, reg) =
            Stepped(last.stmt.cat, HeldAt(last.stmt.left, last.before))
       /\ last.res.v =
            IF last.stmt.order = "ReturnAssign"
            THEN HeldAt(last.stmt.left, last.before)
            ELSE Stepped(last.stmt.cat, HeldAt(last.stmt.left, last.before))
  /\ (Done /\ last.stmt = Block(PostfixScenario) /\ last.res.k = "Ok") =>
       Held(reg, "x") = Number(I64(0)) /\ Held(reg, "y") = Number(I64(1))
  /\ (Done /\ last.stmt = Block(PrefixScenario) /\ last.res.k = "Ok") =>
       Held(reg, "x") = Number(I64(1)) /\ Held(reg, "y") = Number(I64(1))

\* A postfix `--` on the entry "0" of a dict has returned the string held
\* there and left the number 0 in its place.
C1_Witness ==
  /\ IsIncrement
  /\ last.stmt = Assign("MinusMinus", "ReturnAssign", Elem("a", Num(0)), NoOp)
  /\ Held(last.before, "a").t = "Dict"
  /\ last.res = Ok(String("hello"))
  /\ HeldAt(last.stmt.left, reg) = Number(I64_ZERO)

\* The last statement is `left <category> right` for an assignment category.
IsAssign(category) ==
  /\ Done
  /\ last.stmt.k = "Assign"
  /\ last.stmt.cat = category

\* The name the target of the last assignment (or array read) goes by.
TargetName == IF last.stmt.k = "Assign" THEN last.stmt.left.tok.id
              ELSE last.stmt.tok.id

\* The name is bound to a value in the register r.
BoundToValue(r, key) == named(r, key) # None /\ named(r, key)[1].c = "Value"

\* C2: for every pair of values a and b, `a += b` followed by reading `a`
\* yields the same value as `a = a + b` followed by reading `a`, from the
\* same register.
C2_PlusAssignIsAssignPlus ==
  (/\ IsAssign("PlusEqual")
   /\ last.stmt.left.k = "Variable"
   /\ BoundToValue(last.before, TargetName)
   /\ resolve(last.stmt.right, last.before).res.k = "Ok")
  => resolve(last.stmt.left, reg).res =
       resolve(last.stmt.left,
               resolve(Set(last.stmt.left,
                           Operator("Plus", <<last.stmt.left, last.stmt.right>>)),
                       last.before).reg).res

\* C3: evaluating a statement in a fresh register ends in a value, a control
\* value or an InterpretError, never in a panic.
C3_NoPanicInFreshRegister ==
  (Done /\ last.before = create_root(EmptyFrame)) => last.res.k # "Panic"

\* The position of the array read or write `a[p]`, evaluated in the register r.
PositionIn(r) ==
  resolve(IF last.stmt.k = "Assign" THEN last.stmt.left.pos[1]
          ELSE last.stmt.pos[1], r).res

\* The i64 i lies in 0..n-1.
InRange(i, n) == I64Less(I64_MINUS_ONE, i) /\ I64Less(i, I64(n))

\* C4: reading `a[i]` when `a` holds an Array of length n and the integer
\* coercion of i is outside 0..n-1 yields Null, not an error, and leaves the
\* register unchanged.
C4_OutOfRangeReadIsNull ==
  (/\ Done
   /\ last.stmt.k = "Array"
   /\ last.stmt.pos # None
   /\ Held(last.before, TargetName).t = "Array"
   /\ PositionIn(last.before).k = "Ok"
   /\ ~InRange(ToI64(PositionIn(last.before).v),
               Len(Held(last.before, TargetName).a)))
  => last.res = Ok(Null) /\ reg = last.before

\* The last statement is `a[p] = right` with a literal position of type t
\* that has returned a value.
IsElementWrite(t) ==
  /\ IsAssign("Equal")
  /\ last.stmt.left.k = "Array"
  /\ last.stmt.left.pos # None
  /\ last.stmt.left.pos[1].k = "Primitive"
  /\ PositionIn(last.before).k = "Ok"
  /\ PositionIn(last.before).v.t = t
  /\ last.res.k = "Ok"

\* The value written by the last assignment.
Written == resolve(last.stmt.right, last.before).res.v

\* The larger of two naturals.
Max(m, n) == IF m > n THEN m ELSE n

\* The number of elements the value c counts as before a numeric write: those
\* of an Array, and one for any other value (element 0).
Elements(c) == IF c.t = "Array" THEN Len(c.a) ELSE 1

\* C5: after `a[i] = v` with a non-negative numeric index i, when `a` did not
\* hold a Dict, `a` holds an Array of length max(n, i + 1) with v at index i;
\* an Array held before keeps its other elements, a scalar held before is
\* element 0, an unbound `a` gives Null below i, and every other new position
\* is Null.
C5_NumericWriteMaterialisesArray ==
  (/\ IsElementWrite("Number")
   /\ ~IsNeg(PositionIn(last.before).v.n)
   /\ Held(last.before, TargetName).t # "Dict")
  => LET prev == Held(last.before, TargetName)
         now == Held(reg, TargetName)
         i == SmallNat(PositionIn(last.before).v.n)
     IN  /\ now.t = "Array"
         /\ Len(now.a) = Max(Elements(prev), i + 1)
         /\ now.a[i + 1] = Written
         /\ \A j \in 1..Len(now.a) :
              j # i + 1 => now.a[j] = HeldIn(prev, Number(I64(j - 1)))
         /\ named(last.before, TargetName) = None =>
              \A j \in 1..i : now.a[j] = Null

\* `a[2] = 12` on a string has made the string element 0 of a new array.
C5_Witness ==
  /\ IsElementWrite("Number")
  /\ last.stmt = Set(Elem("a", Num(MaxIndex)), Num(12))
  /\ Held(last.before, "a") = String("hello")
  /\ Len(Held(reg, "a").a) = MaxIndex + 1
  /\ Held(reg, "a").a[1] = String("hello")
  /\ Held(reg, "a").a[MaxIndex + 1] = Number(I64(12))

\* The keys under which the value c contributes entries to a dict.
Keys(c) ==
  CASE c.t = "Dict" -> DOMAIN c.d
    [] c.t = "Array" -> {NatToString(i - 1) : i \in 1..Len(c.a)}
    [] c.t = "Null" -> {}
    [] OTHER -> {"0"}

\* C6: after `a[k] = v` with a String index k, `a` holds a Dict in which k
\* maps to v and every entry that existed before is preserved: the other keys
\* of a Dict, the elements of an Array under their decimal index, a scalar
\* under "0", nothing for an unbound `a`; `a[k]` then reads v.
C6_StringWriteMaterialisesDict ==
  IsElementWrite("String")
  => LET prev == Held(last.before, TargetName)
         now == Held(reg, TargetName)
         k == PositionIn(last.before).v.s
     IN  /\ now.t = "Dict"
         /\ DOMAIN now.d = Keys(prev) \cup {k}
         /\ now.d[k] = Written
         /\ \A key \in Keys(prev) \ {k} : now.d[key] = HeldIn(prev, String(key))
         /\ named(last.before, TargetName) = None => DOMAIN now.d = {k}
         /\ resolve(last.stmt.left, reg) = St(reg, Ok(Written))

\* `a["k"] = 12` on an array of two elements has made a dict of three entries.
C6_Witness ==
  /\ IsElementWrite("String")
  /\ last.stmt = Set(Elem("a", Str("k")), Num(12))
  /\ Held(last.before, "a") = Array(<<Number(I64(1)), String("hello")>>)
  /\ Held(reg, "a") =
       Dict("0" :> Number(I64(1)) @@ "1" :> String("hello") @@ "k" :> Number(I64(12)))

\* (a mod 2^32) div 2^b as a non-negative i64, for b in 0..31.
UnsignedShiftAsClaimed(a, b) == Number(U32AsI64(ShrBits(AsU32(a), b)))

\* The value is a Number in 0..31.
IsShiftCount(v) == v.t = "Number" /\ ShiftInRange(v.n, 32)

\* The result of the operand i of the last operator, evaluated in the
\* register the statement ran on (the operands here have no side effects).
Operand(i) == resolve(last.stmt.stmts[i], last.before).res

\* C7: for every i64 left operand a and every shift count b in 0..31,
\* `a >>> b` yields Number((a mod 2^32) div 2^b): the left operand truncated
\* to unsigned 32 bits, shifted right logically and widened to a non-negative
\* i64.
C7_UnsignedShiftRightIsNonNegative ==
  (/\ Done
   /\ last.stmt.k = "Operator"
   /\ last.stmt.cat = "GreaterGreaterGreater"
   /\ Len(last.stmt.stmts) = 2
   /\ Operand(1).k = "Ok" /\ Operand(1).v.t = "Number"
   /\ Operand(2).k = "Ok" /\ IsShiftCount(Operand(2).v))
  => last.res =
       Ok(UnsignedShiftAsClaimed(Operand(1).v.n, SmallNat(Operand(2).v.n)))

\* C8: `a >>>= b` stores in `a`, and returns, the unsigned right shift of the
\* 32-bit truncation of a's value by b: the value of the expression `a >>> b`.
C8_UnsignedShiftAssignShiftsRight ==
  (/\ IsAssign("GreaterGreaterGreaterEqual")
   /\ last.stmt.left.k = "Variable"
   /\ Held(last.before, TargetName).t = "Number"
   /\ resolve(last.stmt.right, last.before).res.k = "Ok"
   /\ IsShiftCount(Written))
  => /\ last.res =
          Ok(UnsignedShiftAsClaimed(Held(last.before, TargetName).n,
                                    SmallNat(Written.n)))
     /\ Held(reg, TargetName) = last.res.v

\* `E x n` as claimed: E resolved n times in a row, the result of the last
\* one returned; Null, and nothing resolved, for n = 0.
RECURSIVE RepeatAsClaimed(_, _, _)
RepeatAsClaimed(r, repeatable, n) ==
  IF n = 0 THEN St(r, Ok(Null))
  ELSE LET one == resolve(repeatable, r)
       IN  IF one.res.k # "Ok" \/ n = 1 THEN one
           ELSE RepeatAsClaimed(one.reg, repeatable, n - 1)

\* C9: evaluating `E x n` evaluates E exactly n times for n >= 1 and returns
\* the result of the last evaluation; for n = 0, E is not evaluated and the
\* result is Null.
C9_RepeatEvaluatesExactlyNTimes ==
  (/\ Done
   /\ last.stmt.k = "Operator"
   /\ last.stmt.cat = "X"
   /\ last.stmt.stmts[2].k = "Primitive")
  => St(reg, last.res) =
       RepeatAsClaimed(last.before, last.stmt.stmts[1],
                       SmallNat(Operand(2).v.n))

\* The control value a `return` statement yields as specified.
ReturnValue == [t |-> "Return", v |-> Null]

\* `Block(stmts)` as claimed, from statement i on: a statement yielding Exit,
\* Return or Break ends the block with that value; a `return` statement
\* yields the Return control value.
RECURSIVE BlockAsClaimed(_, _, _)
BlockAsClaimed(r, blocks, i) ==
  IF i > Len(blocks) THEN St(r, Ok(Null))
  ELSE LET one == IF blocks[i].k = "Return" THEN St(r, Ok(ReturnValue))
                  ELSE IF blocks[i].k = "Block"
                  THEN BlockAsClaimed(r, blocks[i].stmts, 1)
                  ELSE resolve(blocks[i], r)
       IN  IF one.res.k # "Ok" THEN one
           ELSE IF one.res.v.t \in {"Exit", "Return", "Break"} THEN one
           ELSE BlockAsClaimed(one.reg, blocks, i + 1)

\* C10: `Block(stmts)` evaluates the statements strictly left to right; as
\* soon as one yields Exit, Return or Break the block returns that control
\* value unchanged and evaluates no later statement; otherwise it yields Null.
C10_BlockPropagatesControlValues ==
  (Done /\ last.stmt.k = "Block")
  => St(reg, last.res) = BlockAsClaimed(last.before, last.stmt.stmts, 1)

\* A loop has been called: last holds it, its result and the evaluations it
\* made, in order.
Looped(kind) == Done /\ last.stmt.k = kind

\* The evaluation e yielded a value that coerces to b.
Yielded(e, b) == e.res.k = "Ok" /\ ToBool(e.res.v) = b

\* The evaluation e yielded a value that the loops catch.
Caught(e) == e.res.k = "Ok" /\ e.res.v.t \in {"Break", "Exit", "Return"}

\* The evaluation e yielded a value that the loops do not catch.
Passed(e) == e.res.k = "Ok" /\ e.res.v.t \notin {"Break", "Exit", "Return"}

\* The statement holds an assignment to the name: of the variable as a whole
\* or of an element of it.
RECURSIVE AssignsTo(_, _)
AssignsTo(statement, name) ==
  CASE statement.k = "Assign" ->
         \/ /\ statement.left.k \in {"Variable", "Array"}
            /\ statement.left.tok.cat = "Identifier"
            /\ statement.left.tok.id = name
         \/ AssignsTo(statement.right, name)
    [] statement.k = "Block" ->
         \E j \in 1..Len(statement.stmts) : AssignsTo(statement.stmts[j], name)
    [] statement.k = "If" ->
         \/ AssignsTo(statement.cond, name)
         \/ AssignsTo(statement.then, name)
         \/ statement.else # None /\ AssignsTo(statement.else[1], name)
    [] statement.k = "Operator" ->
         \E j \in 1..Len(statement.stmts) : AssignsTo(statement.stmts[j], name)
    [] statement.k \in {"Exit", "Return"} -> AssignsTo(statement.stmt, name)
    [] OTHER -> FALSE

\* The positions of the evaluations of `what` in the log.
Evaluations(log, what) == {j \in 1..Len(log) : log[j].what = what}

\* The loop of `for (i = 1; i < 5; i++) { a += i; }`
ForExample ==
  For(Set(Var("i"), Num(1)), Less(Var("i"), Num(5)), Inc("ReturnAssign", Var("i")),
      Block(<<AddTo("a", Var("i"))>>))

\* C11: a for loop evaluates its initialisation statement exactly once, then
\* cycles condition, body, update: the body is evaluated only directly after
\* a condition that evaluated to true, the update only directly after a body
\* that yielded none of Break, Exit, Return, and each is evaluated then; a
\* first condition that is false leaves body and update unevaluated.  After
\* `a = 0;` the loop `for (i = 1; i < 5; i++) { a += i; }` returns Null and
\* a is 10.
C11_ForLoopCyclesConditionBodyUpdate ==
  Looped("For") =>
    /\ Evaluations(last.log, "assignment") = {1}
    /\ \A j \in 2..Len(last.log) :
         /\ last.log[j].what = "condition" =>
              /\ last.log[j - 1].what \in {"assignment", "update"}
              /\ last.log[j - 1].res.k = "Ok"
         /\ last.log[j].what = "body" =>
              /\ last.log[j - 1].what = "condition"
              /\ Yielded(last.log[j - 1], TRUE)
         /\ last.log[j].what = "update" =>
              /\ last.log[j - 1].what = "body"
              /\ Passed(last.log[j - 1])
    /\ \A j \in 1..(Len(last.log) - 1) :
         /\ last.log[j].what = "condition" => Yielded(last.log[j], TRUE)
         /\ last.log[j].what = "body" => Passed(last.log[j])
    /\ last.res.k # "Running" =>
         LET e == last.log[Len(last.log)]
         IN  \/ e.res.k # "Ok"
             \/ e.what = "condition" /\ Yielded(e, FALSE)
             \/ e.what = "body" /\ Caught(e)
    /\ (Len(last.log) >= 2 /\ Yielded(last.log[2], FALSE)) =>
         /\ Len(last.log) = 2
         /\ last.res = Ok(Null)
    /\ (last.stmt = ForExample /\ Held(last.before, "a") = Number(I64(0))) =>
         /\ last.res = Ok(Null)
         /\ Held(reg, "a") = Number(I64(10))

\* A for loop has gone round more than once and ended on its condition.
C11_Witness ==
  /\ Looped("For")
  /\ last.stmt = ForExample
  /\ Held(last.before, "a") = Number(I64(0))
  /\ Cardinality(Evaluations(last.log, "update")) = 4
  /\ Cardinality(Evaluations(last.log, "body")) = 4
  /\ Yielded(last.log[Len(last.log)], FALSE)

\* One of the four loops has been called and has returned.
LoopEnded ==
  /\ Done
  /\ last.stmt.k \in {"For", "While", "Repeat", "ForEach"}
  /\ last.res.k # "Running"

\* C12: in every loop form (for, foreach, while, repeat), a body evaluation
\* that yields Exit(n) or Return(v) makes the loop return exactly that value
\* and evaluate nothing further (no update, no condition, no further
\* element); a body evaluation that yields Break stops the loop, which then
\* returns Null; a loop that runs to exhaustion returns Null.
C12_LoopsReturnCaughtValueOrNull ==
  LoopEnded =>
    /\ \A j \in Evaluations(last.log, "body") :
         Caught(last.log[j]) =>
           /\ j = Len(last.log)
           /\ last.res = IF last.log[j].res.v.t = "Break" THEN Ok(Null)
                         ELSE last.log[j].res
    /\ last.res.k = "Ok" =>
         \/ last.res = Ok(Null)
         \/ /\ last.log # <<>>
            /\ last.log[Len(last.log)].what = "body"
            /\ last.log[Len(last.log)].res = last.res
            /\ last.res.v.t \in {"Exit", "Return"}

\* A while loop has gone round once and then its body returned a value.
C12_Witness ==
  /\ LoopEnded
  /\ last.stmt.k = "While"
  /\ Cardinality(Evaluations(last.log, "body")) >= 2
  /\ last.log[Len(last.log)].what = "body"
  /\ last.res.k = "Ok"
  /\ last.res.v.t = "Return"

\* The loop of `repeat { a += i; i--; } until (i > 0);`
RepeatExample ==
  Repeat(Block(<<AddTo("a", Var("i")), Dec("i")>>), Greater(Var("i"), Num(0)))

\* C13: a repeat-until loop evaluates its body at least once, before the
\* first evaluation of its condition; it evaluates the condition after every
\* body evaluation that yielded no control value, and ends at the first
\* condition that evaluates to true.  After `i = 10; a = 0;` the loop
\* `repeat { a += i; i--; } until (i > 0);` evaluates its body once and
\* leaves a = 10, i = 9.
C13_RepeatRunsBodyBeforeCondition ==
  Looped("Repeat") =>
    /\ last.log # <<>>
    /\ last.log[1].what = "body"
    /\ \A j \in 1..Len(last.log) :
         /\ last.log[j].what = "condition" =>
              /\ j > 1
              /\ last.log[j - 1].what = "body"
              /\ Passed(last.log[j - 1])
         /\ (last.log[j].what = "body" /\ j > 1) =>
              /\ last.log[j - 1].what = "condition"
              /\ Yielded(last.log[j - 1], FALSE)
         /\ (last.log[j].what = "body" /\ Passed(last.log[j])
               /\ last.res.k # "Running") =>
              /\ j < Len(last.log)
              /\ last.log[j + 1].what = "condition"
         /\ (last.log[j].what = "condition" /\ Yielded(last.log[j], TRUE)) =>
              /\ j = Len(last.log)
              /\ last.res = Ok(Null)
    /\ (/\ last.stmt = RepeatExample
        /\ Held(last.before, "i") = Number(I64(StartValue))
        /\ Held(last.before, "a") = Number(I64(0))) =>
         /\ Cardinality(Evaluations(last.log, "body")) = 1
         /\ Held(reg, "a") = Number(I64(StartValue))
         /\ Held(reg, "i") = Number(I64(StartValue - 1))

\* A repeat loop has gone round more than once and ended on a true condition.
C13_Witness ==
  /\ Looped("Repeat")
  /\ Cardinality(Evaluations(last.log, "body")) >= 3
  /\ last.log[Len(last.log)].what = "condition"
  /\ Yielded(last.log[Len(last.log)], TRUE)

\* The loop of `foreach i (arr) { a += i; }`
ForEachExample ==
  ForEach(IdentToken("i"), Var("arr"), Block(<<AddTo("a", Var("i"))>>))

\* The elements a foreach loop visits in the value v of its iterable.
Visited(v) == IF v.t = "Array" THEN v.a ELSE <<>>

\* C14: a foreach loop evaluates its iterable expression exactly once, before
\* the first element; it then binds the loop variable to each element in
\* order and evaluates the body once per element (zero times for Null), and
\* what the body does to the iterated variable does not alter the elements
\* visited.  After `arr[0] = 3; arr[1] = 5; a = 0;` the loop
\* `foreach i (arr) { a += i; }` returns Null and a is 8.
C14_ForEachVisitsElementsOfOneEvaluation ==
  (Looped("ForEach") /\ last.stmt.variable.cat = "Identifier") =>
    /\ Evaluations(last.log, "iterable") = {1}
    /\ (last.log[1].res.k = "Ok" /\ last.log[1].res.v.t \in {"Array", "Null"}) =>
         LET items == Visited(last.log[1].res.v)
             binds == Evaluations(last.log, "bind")
             bodies == Evaluations(last.log, "body")
         IN  /\ binds = {2 * k : k \in 1..Cardinality(binds)}
             /\ bodies = {2 * k + 1 : k \in 1..Cardinality(binds)}
             /\ Len(last.log) = 2 * Cardinality(binds) + 1
             /\ Cardinality(binds) <= Len(items)
             /\ \A k \in 1..Cardinality(binds) : last.log[2 * k].res = Ok(items[k])
             /\ (\A j \in bodies : Passed(last.log[j])) =>
                  /\ Cardinality(bodies) = Len(items)
                  /\ last.res = Ok(Null)
             /\ (/\ binds # {}
                 /\ ~AssignsTo(last.stmt.body, last.stmt.variable.id)) =>
                  Held(reg, last.stmt.variable.id) = items[Cardinality(binds)]
    /\ (/\ last.stmt = ForEachExample
        /\ Held(last.before, "arr") = Array(<<Number(I64(3)), Number(I64(5))>>)
        /\ Held(last.before, "a") = Number(I64(0))) =>
         /\ last.res = Ok(Null)
         /\ Held(reg, "a") = Number(I64(8))

\* A foreach loop has visited the three elements of an array that its body
\* overwrote on the first of them.
C14_Witness ==
  /\ Looped("ForEach")
  /\ Held(last.before, "arr").t = "Array"
  /\ Held(reg, "arr") = Number(I64(0))
  /\ Cardinality(Evaluations(last.log, "body")) = 3
  /\ last.res = Ok(Null)

\* The tokens next has returned so far, in order.
Emitted == [i \in 1..Len(calls) |-> calls[i].token]

\* Token::is_faulty
is_faulty(token) ==
  token.category.c \in {"IllegalIPv4Address", "IllegalNumber", "Unclosed",
                        "UnknownBase", "UnknownSymbol"}

\* Every call that returned a token has advanced the cursor within the
\* source, and the Unclosed token of a string is the last token, at the end
\* of the source.
CallsAdvance ==
  /\ \A i \in 1..Len(calls) :
       /\ calls[i].after >= calls[i].before + 1
       /\ calls[i].after <= Len(code)
       /\ (i > 1) => (calls[i].before = calls[i - 1].after)
       /\ (calls[i].token.category.c = "Unclosed") =>
            (i = Len(calls) /\ calls[i].after = Len(code))
  /\ Len(calls) <= Len(code)
  /\ ended => (cursor = Len(code))

\* C15: for every finite source string the tokenizer terminates: every call
\* of Tokenizer::next that returns a token has advanced the cursor by at
\* least one character, and after finitely many calls next returns None; an
\* unterminated string literal ends the sequence with a single Unclosed token
\* instead of a failure.
C15_TokenizerTerminates ==
  ([]CallsAdvance) /\ ((status = "tokenizing") ~> ended)

\* The tokenizer has ended behind a token and the Unclosed token of a string.
C15_Witness ==
  /\ ended
  /\ Len(calls) >= 2
  /\ calls[Len(calls)].token.category.c = "Unclosed"

\* C16: for every source string and every token the tokenizer emits, the
\* span (start, end) satisfies start <= end <= length of the source, and of
\* two tokens emitted one after the other the later one's start is not
\* smaller than the earlier one's end, error tokens such as IllegalNumber,
\* UnknownBase, IllegalIPv4Address and Unclosed included.
C16_SpansAreOrderedAndInBounds ==
  /\ \A i \in 1..Len(calls) :
       /\ 0 <= Emitted[i].position[1]
       /\ Emitted[i].position[1] <= Emitted[i].position[2]
       /\ Emitted[i].position[2] <= Len(code)
  /\ \A i \in 1..(Len(calls) - 1) :
       Emitted[i + 1].position[1] >= Emitted[i].position[2]

\* An IllegalNumber or UnknownBase token has been followed by another token.
C16_Witness ==
  /\ Len(calls) >= 2
  /\ Emitted[Len(calls) - 1].category.c \in {"IllegalNumber", "UnknownBase"}
  /\ Emitted[Len(calls) - 1].position[2] <= Emitted[Len(calls)].position[1]

\* The source is valid: the tokenizer has ended and no token is faulty.
Valid == ended /\ \A i \in 1..Len(calls) : ~is_faulty(Emitted[i])

\* Where the call read its first character, behind the whitespace.
At(call) == skip_while(code, call.before, Whitespace)

\* The byte b of the source (from 0) lies in the span of a token.
Covered(b) ==
  \E i \in 1..Len(calls) :
    Emitted[i].position[1] <= b /\ b < Emitted[i].position[2]

\* The byte b is the quote directly before or behind the span of a string.
DelimitsString(b) ==
  \E i \in 1..Len(calls) :
    /\ Emitted[i].category.c = "String"
    /\ b = Emitted[i].position[1] - 1 \/ b = Emitted[i].position[2]
    /\ code[b + 1] = code[Emitted[i].position[1]]
    /\ code[b + 1] \in {"\"", "'"}

\* The byte b belongs to the base prefix (`0b`, `0x`, or the `0` of an octal
\* number) directly before the span of a number.
InBasePrefix(b) ==
  \E i \in 1..Len(calls) :
    /\ Emitted[i].category.c = "Number"
    /\ At(calls[i]) <= b /\ b < Emitted[i].position[1]
    /\ lookup(code, At(calls[i]), Emitted[i].position[1])
         \in {<<"0">>, <<"0", "b">>, <<"0", "x">>}

\* C17 as the specification states it: for every valid source string, the
\* slices of the source under the tokens' spans, together with the skipped
\* whitespace and the comments, reconstruct the source byte for byte: no
\* source byte outside whitespace lies outside every token span.
C17_SpansAndWhitespaceCoverSource ==
  Valid =>
    \A b \in 0..(Len(code) - 1) : code[b + 1] \notin Whitespace => Covered(b)

\* C17, amended: for every valid source string, every source byte outside
\* whitespace lies in a token span (comments are tokens), or is the quote that
\* opens or closes a string literal, or belongs to the base prefix of a number
\* literal; spans leave out the quotes and the base prefixes.
C17_SpansQuotesAndPrefixesCoverSource ==
  Valid =>
    \A b \in 0..(Len(code) - 1) :
      code[b + 1] \notin Whitespace =>
        (Covered(b) \/ DelimitsString(b) \/ InBasePrefix(b))

\* A valid source with a string literal that is not empty has been tokenized.
C17_Witness ==
  /\ Valid
  /\ \E i \in 1..Len(calls) :
       /\ Emitted[i].category.c = "String"
       /\ Emitted[i].position[1] < Emitted[i].position[2]
       /\ ~Covered(Emitted[i].position[2])

\* The operators that begin with `>` and those that begin with `<`, each
\* with its category.
GreaterForms ==
  {[text |-> <<">">>, category |-> "Greater"],
   [text |-> <<">", ">">>, category |-> "GreaterGreater"],
   [text |-> <<">", "=">>, category |-> "GreaterEqual"],
   [text |-> <<">", "<">>, category |-> "GreaterLess"],
   [text |-> <<">", ">", ">">>, category |-> "GreaterGreaterGreater"],
   [text |-> <<">", ">", "=">>, category |-> "GreaterGreaterEqual"],
   [text |-> <<">", ">", ">", "=">>, category |-> "GreaterGreaterGreaterEqual"],
   [text |-> <<">", "!", "<">>, category |-> "GreaterBangLess"]}

LessForms ==
  {[text |-> <<"<">>, category |-> "Less"],
   [text |-> <<"<", "<">>, category |-> "LessLess"],
   [text |-> <<"<", "=">>, category |-> "LessEqual"],
   [text |-> <<"<", "<", "=">>, category |-> "LessLessEqual"]}

\* The form is a prefix of the source from byte b on.
PrefixAt(form, b) ==
  /\ b + Len(form.text) <= Len(code)
  /\ lookup(code, b, b + Len(form.text)) = form.text

\* The call returned the longest of the forms that is a prefix of the source
\* where it read, with a span over exactly its characters.
LongestOf(forms, call) ==
  \E form \in forms :
    /\ PrefixAt(form, At(call))
    /\ \A other \in forms :
         PrefixAt(other, At(call)) => Len(other.text) <= Len(form.text)
    /\ call.token = Token(Category(form.category), At(call),
                          At(call) + Len(form.text))
    /\ call.after = At(call) + Len(form.text)

\* C18: at every position where the next character that is not whitespace is
\* `>` (resp. `<`), the tokenizer emits the longest member of {>, >>, >=, ><,
\* >>>, >>=, >>>=, >!<} (resp. {<, <<, <=, <<=}) that is a prefix of the
\* remaining input, with a span covering exactly that many characters.
C18_LongestComparisonOrShift ==
  \A i \in 1..Len(calls) :
    /\ code[At(calls[i]) + 1] = ">" => LongestOf(GreaterForms, calls[i])
    /\ code[At(calls[i]) + 1] = "<" => LongestOf(LessForms, calls[i])

\* One of the three-character operators has been read, and another token
\* behind it.
C18_Witness ==
  \E i \in 1..Len(calls) :
    /\ i < Len(calls)
    /\ Emitted[i].category.c \in {"GreaterBangLess", "GreaterGreaterEqual",
                                  "GreaterGreaterGreater", "LessLessEqual"}
    /\ Emitted[i].position[2] = Emitted[i].position[1] + 3

\* The bytes from b on (from 0) at which the source has the character quote.
QuotesFrom(b, quote) == {j \in b..(Len(code) - 1) : code[j + 1] = quote}

\* The byte j of a literal whose text begins at byte b is behind a backslash
\* of the literal.
BehindBackslash(b, j) == j > b /\ code[j] = "\\"

\* The least member of a set of bytes that is not empty.
First(bytes) == CHOOSE j \in bytes : \A k \in bytes : j <= k

\* The call read a string literal whose text begins at byte b: it returned
\* a String over the bytes up to the first of the closing bytes, or
\* Unclosed when there is none.
ExtendsTo(call, b, closing, string_category) ==
  IF closing = {}
  THEN call.token.category = Unclosed(string_category)
  ELSE /\ call.token.category.c = "String"
       /\ call.token.position = <<b, First(closing)>>

\* The calls that read a literal opened by the character quote.
Opened(quote) == {i \in 1..Len(calls) : code[At(calls[i]) + 1] = quote}

\* C19, as the specification states it: a double-quoted string literal
\* extends to the next `"` that is not preceded by a backslash, and is
\* Unclosed(Unquotable) when no such `"` follows.
C19_UnquotableEndsAtUnescapedQuote ==
  \A i \in Opened("\"") :
    ExtendsTo(calls[i], At(calls[i]) + 1,
              {j \in QuotesFrom(At(calls[i]) + 1, "\"") :
                 ~BehindBackslash(At(calls[i]) + 1, j)},
              Unquotable)

\* C19, as the code has it: a double-quoted string literal extends to the
\* next `"`, whether or not a backslash precedes it, and is
\* Unclosed(Unquotable) when no `"` follows.
C19_UnquotableEndsAtNextQuote ==
  \A i \in Opened("\"") :
    ExtendsTo(calls[i], At(calls[i]) + 1,
              QuotesFrom(At(calls[i]) + 1, "\""), Unquotable)

\* A double-quoted literal has been closed by a `"` behind a backslash.
C19_Witness ==
  \E i \in Opened("\"") :
    /\ Emitted[i].category.c = "String"
    /\ BehindBackslash(At(calls[i]) + 1, Emitted[i].position[2])

\* How many backslashes of a literal whose text begins at byte b stand in
\* a row right before byte j.
BackslashRun(b, j) ==
  LET runs == {k \in 0..(j - b) : \A m \in 1..k : code[j - m + 1] = "\\"}
  IN  CHOOSE k \in runs : \A other \in runs : other <= k

\* The `'` from byte b on that an even number of backslashes precedes.
ClosingQuotes(b) == {j \in QuotesFrom(b, "'") : BackslashRun(b, j) % 2 = 0}

Decimal ==
  {i \in 1..Len(calls) :
     \/ code[At(calls[i]) + 1] \in Base10Digits \ {"0"}
     \/ code[At(calls[i]) + 1] = "0" /\ peek(code, At(calls[i]) + 1, 0) = "."}

\* How many groups `.DIGITS` the source has in a row from byte p on.
DottedGroups(p) ==
  LET dotted[q \in 0..Len(code)] ==
        IF peek(code, q, 0) = "." /\ peek(code, q, 1) \in Base10Digits
        THEN 1 + dotted[skip_while(code, q + 1, Base10Digits)]
        ELSE 0
  IN  dotted[p]

\* How many groups `.DIGITS` follow the first number of the literal that the
\* call read.
DottedAfter(call) == DottedGroups(skip_while(code, At(call), Base10Digits))

\* C21: a decimal literal followed by `.DIGIT` is an IPv4Address only when it
\* has exactly four groups of digits with three dots between them; with one
\* or two dotted groups behind the first number, or a dot that no digit
\* follows, it is an IllegalIPv4Address.
C21_AddressNeedsFourGroups ==
  \A i \in Decimal :
    /\ DottedAfter(calls[i]) = 3 => Emitted[i].category.c = "IPv4Address"
    /\ DottedAfter(calls[i]) \in {1, 2} =>
         Emitted[i].category.c = "IllegalIPv4Address"
    /\ Emitted[i].category.c = "IPv4Address" => DottedAfter(calls[i]) = 3

\* The last call on RawIp was nasl_fn_execute.
Executed == dispatched # None /\ dispatched[1].call = "nasl_fn_execute"

\* The function of the module for the name of the last call.
FunctionOf(module) == [module |-> module, name |-> dispatched[1].name]

\* nasl_fn_execute invoked one function, that of frame_forgery when its
\* lookup hits and else that of packet_forgery, or none when both miss.
FirstHitWins ==
  /\ dispatched[1].name \in frame_forgery =>
       dispatched[1].invoked = <<FunctionOf("frame_forgery")>>
  /\ dispatched[1].name \in packet_forgery \ frame_forgery =>
       dispatched[1].invoked = <<FunctionOf("packet_forgery")>>
  /\ dispatched[1].name \notin frame_forgery \cup packet_forgery =>
       dispatched[1].invoked = <<>>

\* nasl_fn_execute returned None, and invoked nothing, exactly when
\* nasl_fn_defined is false of the name.
ConsistentWithDefined ==
  /\ dispatched[1].result = None <=> ~nasl_fn_defined(dispatched[1].name)
  /\ dispatched[1].invoked = <<>> <=> ~nasl_fn_defined(dispatched[1].name)

\* C22: the dispatch of RawIp is first-hit-wins and consistent:
\* nasl_fn_execute invokes exactly one function, frame_forgery's when
\* frame_forgery::lookup hits and otherwise packet_forgery's when that lookup
\* hits, and it returns None without invoking anything exactly when
\* nasl_fn_defined is false of the name.
C22_RawIpDispatchIsFirstHitWins ==
  Executed => FirstHitWins /\ ConsistentWithDefined

\* nasl_fn_execute has been called with a name that both modules have.
C22_Witness ==
  /\ Executed
  /\ dispatched[1].name \in frame_forgery \cap packet_forgery
  /\ dispatched[1].result # None

\* The last statement is the read of a variable by its name.
IsVariable == Done /\ last.stmt.k = "Variable" /\ last.stmt.tok.cat = "Identifier"

\* C23: evaluating `Variable(name)` for a name that no frame of the register
\* binds yields Null, not an error, and leaves the register unchanged;
\* evaluating it for a name bound to a value yields a copy of that value.
C23_UnboundVariableIsNull ==
  IsVariable =>
    /\ named(last.before, TargetName) = None =>
         last.res = Ok(Null) /\ reg = last.before
    /\ BoundToValue(last.before, TargetName) =>
         last.res = Ok(named(last.before, TargetName)[1].val)

\* The Lexer has dispatched `++` or `--` in the position.
Increments(dispatch) ==
  /\ parsed # None
  /\ parsed[1].dispatch = dispatch
  /\ parsed[1].token.category.c \in {"PlusPlus", "MinusMinus"}

\* The dispatch ended in the syntax error of an unexpected token.
UnexpectedToken(result) ==
  result.k = "Err" /\ result.e.kind = "UnexpectedToken"

\* The dispatch gave the Assign of its operator in the order on the target.
AssignsInOrder(result, order, target) ==
  result = Ok(Parse(Continue, Assign(parsed[1].token.category, order, target, NoOp)))

\* `++` or `--` behind a statement: ReturnAssign on a Variable or an Array,
\* an unexpected token on any other statement.
PostfixFixesReturnAssign ==
  /\ parsed[1].result # None
  /\ IF parsed[1].lhs[1].k \in {"Variable", "Array"}
     THEN AssignsInOrder(parsed[1].result[1], "ReturnAssign", parsed[1].lhs[1])
     ELSE UnexpectedToken(parsed[1].result[1])

\* What stands behind the prefix operator, as parse_variable reads it.
PrefixOperand == parse_variable(Head(parsed[1].rest), Tail(parsed[1].rest))

\* `++` or `--` before a statement: AssignReturn on a Variable or an Array,
\* an unexpected token on a Call and on what is no variable at all.
PrefixFixesAssignReturn ==
  /\ (PrefixOperand.k = "Ok" /\ PrefixOperand.v.stmt.k \in {"Variable", "Array"}) =>
       AssignsInOrder(parsed[1].result[1], "AssignReturn", PrefixOperand.v.stmt)
  /\ (PrefixOperand.k = "Ok" /\ PrefixOperand.v.stmt.k \notin {"Variable", "Array"}) =>
       UnexpectedToken(parsed[1].result[1])
  /\ OperationNew(Head(parsed[1].rest))[1].op # "Variable" =>
       UnexpectedToken(parsed[1].result[1])

\* C24: the parser fixes the assign order from the position of the operator
\* alone: `++` or `--` written after a Variable or Array expression produces
\* Assign(op, ReturnAssign, target, NoOp), written before one it produces
\* Assign(op, AssignReturn, target, NoOp), and applied to any other kind of
\* statement it produces the syntax error of an unexpected token instead of
\* an Assign.
C24_ParserFixesAssignOrder ==
  /\ Increments("postfix") => PostfixFixesReturnAssign
  /\ (Increments("prefix") /\ parsed[1].rest # <<>>) => PrefixFixesAssignReturn

\* `--` has been parsed before an element of an array.
C24_Witness ==
  /\ Increments("prefix")
  /\ parsed[1].rest # <<>>
  /\ PrefixOperand.k = "Ok"
  /\ PrefixOperand.v.stmt.k = "Array"
  /\ parsed[1].result[1].k = "Ok"
  /\ parsed[1].result[1].v.stmt.order = "AssignReturn"

\* The last statement is `exit(e)`.
IsExit == Done /\ last.stmt.k = "Exit"

\* What resolving the code of the last exit statement gave.
ExitCode == resolve(last.stmt.stmt, last.before)

\* C25, as the specification states it: evaluating `Exit(e)` evaluates e,
\* coerces the result to an integer n by the numeric coercion (Null to 0, a
\* Boolean to 0 or 1, a String to 1, ...) and yields Exit(n) for every value
\* of e.
C25_ExitCoercesToInteger ==
  (IsExit /\ ExitCode.res.k = "Ok") =>
    last.res = Ok(ExitValue(ToI64(ExitCode.res.v)))

\* C25, as the code has it: evaluating `Exit(e)` evaluates e and yields
\* Exit(n) when the value is Number(n); for every other value it yields an
\* error, without coercion.
C25_ExitNeedsNumber ==
  (IsExit /\ ExitCode.res.k = "Ok") =>
    /\ reg = ExitCode.reg
    /\ ExitCode.res.v.t = "Number" => last.res = Ok(ExitValue(ExitCode.res.v.n))
    /\ ExitCode.res.v.t # "Number" => last.res.k = "Err"

\* `exit(e)` has been evaluated for an e that is a String.
C25_Witness ==
  /\ IsExit
  /\ ExitCode.res.k = "Ok"
  /\ ExitCode.res.v.t = "String"
  /\ last.res.k = "Err"

\* The last statement is an assignment to a variable or to an element, and
\* it has stored.
Assigned ==
  /\ Done
  /\ last.stmt.k = "Assign"
  /\ last.stmt.left.k \in {"Variable", "Array"}
  /\ last.res.k = "Ok"

\* The frames of the register r that bind the name, from 1.
Binding(r, key) == {i \in 1..Len(r) : key \in DOMAIN r[i]}

\* The frame an assignment to the name writes in: the innermost that binds
\* it, the root when none does.
FrameOf(r, key) ==
  IF Binding(r, key) = {} THEN 1
  ELSE CHOOSE i \in Binding(r, key) : \A j \in Binding(r, key) : j <= i

\* Between the registers r and w only the slot of the name in frame i
\* differs, and w has it.
OnlySlotWritten(r, w, i, key) ==
  /\ Len(w) = Len(r)
  /\ \A j \in 1..Len(r) : j # i => w[j] = r[j]
  /\ DOMAIN w[i] = DOMAIN r[i] \cup {key}
  /\ \A k \in DOMAIN r[i] \ {key} : w[i][k] = r[i][k]
  /\ w[i][key].c = "Value"

\* C26: an assignment to a name that some frame binds overwrites the slot in
\* the innermost frame that binds it and changes no other frame and no other
\* name; an assignment to a name that no frame binds creates the slot in
\* frame 0, the root, also while child frames are on the stack.
C26_AssignmentWritesWhereNameIsFound ==
  Assigned =>
    OnlySlotWritten(last.before, reg, FrameOf(last.before, TargetName), TargetName)

\* Under two child frames, a name that the root and the first child bind has
\* been assigned, and the slot of the first child has changed.
C26_Witness ==
  /\ Assigned
  /\ Len(reg) = 3
  /\ Binding(last.before, TargetName) = {1, 2}
  /\ reg[2][TargetName] # last.before[2][TargetName]

\* `left && right` or `left || right` has been resolved.
Logical ==
  /\ Done
  /\ last.stmt.k = "Operator"
  /\ last.stmt.cat \in LogicalCategories
  /\ Len(last.stmt.stmts) = 2

\* The left operand resolved on the register of the call, and the right
\* operand resolved on the register the left one leaves.
LeftOperand == resolve(last.stmt.stmts[1], last.before)
RightOperand == resolve(last.stmt.stmts[2], LeftOperand.reg)

\* The boolean of the two values, both of them taken.
BothTaken(category, a, b) ==
  IF category = "AmpersandAmpersand" THEN ToBool(a) /\ ToBool(b)
  ELSE ToBool(a) \/ ToBool(b)

\* C27: && and || never short-circuit.  A failing left operand is the
\* result and the right operand is not evaluated; otherwise the right
\* operand is evaluated after the left one whatever the left value is, its
\* effects on the register stay, its error is the error of the expression,
\* and the result is the boolean of both values.
C27_LogicalOperatorsEvaluateBothOperands ==
  Logical =>
    IF LeftOperand.res.k # "Ok"
    THEN last.res = LeftOperand.res /\ reg = LeftOperand.reg
    ELSE /\ reg = RightOperand.reg
         /\ IF RightOperand.res.k # "Ok" THEN last.res = RightOperand.res
            ELSE last.res = Ok(Boolean(BothTaken(last.stmt.cat,
                                                 LeftOperand.res.v,
                                                 RightOperand.res.v)))

\* `1 || (c = 7)`: the left value decides the result, and the assignment of
\* the right operand has bound c all the same.
C27_Witness ==
  /\ Logical
  /\ last.stmt.cat = "PipePipe"
  /\ LeftOperand.res = Ok(Number(I64(1)))
  /\ last.res = Ok(Boolean(TRUE))
  /\ "c" \notin DOMAIN last.before[1]
  /\ "c" \in DOMAIN reg[1]

\* The left side of the last assignment is one assign() takes as a target.
IsTarget(left) == left.k = "Variable" \/ (left.k = "Array" /\ left.pos # None)

\* An assignment has been resolved whose left side is no target.
NoTarget ==
  /\ Done
  /\ last.stmt.k = "Assign"
  /\ ~IsTarget(last.stmt.left)

\* An assignment has been resolved whose target name was bound to a
\* function slot.
TargetIsFunction ==
  /\ Done
  /\ last.stmt.k = "Assign"
  /\ IsTarget(last.stmt.left)
  /\ named(last.before, TargetName) = Some(FunctionSlot)

\* The index of the target, if it has one, and then the right side, resolved
\* on the register of the call.
IndexEvaluated ==
  IF last.stmt.left.k = "Array" THEN resolve(last.stmt.left.pos[1], last.before)
  ELSE St(last.before, Ok(Null))
RightEvaluated ==
  IF IndexEvaluated.res.k # "Ok" THEN IndexEvaluated
  ELSE resolve(last.stmt.right, IndexEvaluated.reg)

\* C28 as claimed: an assignment of any category whose target name is bound
\* to a function slot, or whose left side is neither Variable(name) nor
\* Array(name, Some(index)), returns an InterpretError and leaves every frame
\* of the register exactly as it was before the assignment.
C28_UnassignableLeavesRegister ==
  (NoTarget \/ TargetIsFunction) => last.res.k = "Err" /\ reg = last.before

\* C28 as the code has it: a left side that is no target is an InterpretError
\* before anything is evaluated, and the register stays as it was.  A target
\* bound to a function slot is refused after the index and the right side
\* have been evaluated: a failure of theirs is the result, otherwise the
\* result is an InterpretError, and the assignment stores nothing of its
\* own, so the register is the one their evaluation left.
C28_UnassignableStoresNothingOfItsOwn ==
  /\ NoTarget => last.res.k = "Err" /\ reg = last.before
  /\ TargetIsFunction =>
       /\ reg = RightEvaluated.reg
       /\ IF RightEvaluated.res.k # "Ok" THEN last.res = RightEvaluated.res
          ELSE last.res = Err("is a function and not assignable")

\* `a = (c = 7)` with a bound to a function: the assignment to a has been
\* refused, and c is bound.
C28_Witness ==
  /\ TargetIsFunction
  /\ last.res = Err("is a function and not assignable")
  /\ "c" \notin DOMAIN last.before[1]
  /\ reg[1] = last.before[1] @@ ("c" :> ValueSlot(Number(I64(7))))

\* An indexed assignment of any category to a variable that held a Dict has
\* been resolved, its index having a value.
WritesIntoDict ==
  /\ Done
  /\ last.stmt.k = "Assign"
  /\ last.stmt.left.k = "Array"
  /\ last.stmt.left.pos # None
  /\ Held(last.before, TargetName).t = "Dict"
  /\ PositionIn(last.before).k = "Ok"

\* The key an index value is written under in a Dict.
KeyOf(i) == IF i.t = "String" THEN i.s ELSE to_string(i)

\* The Dict w is the Dict d with the entry under key written, and all other
\* entries as they were.
OnlyEntryWritten(d, w, key) ==
  /\ DOMAIN w = DOMAIN d \cup {key}
  /\ \A k \in DOMAIN d \ {key} : w[k] = d[k]

\* C29: an indexed write to a variable that holds a Dict, with a string or a
\* non-string index, keeps it a Dict: a non-string index i is written under
\* the key to_string(i), all other entries are preserved, and the variable
\* never becomes an Array.
C29_DictStaysDict ==
  WritesIntoDict =>
    /\ Held(reg, TargetName).t = "Dict"
    /\ last.res.k = "Ok" =>
         /\ OnlyEntryWritten(Held(last.before, TargetName).d,
                             Held(reg, TargetName).d,
                             KeyOf(PositionIn(last.before).v))
         /\ last.stmt.order = "AssignReturn" =>
              Held(reg, TargetName).d[KeyOf(PositionIn(last.before).v)]
                = last.res.v

\* `a[2] = ...` on a Dict without the key "2": the entry is new under "2",
\* and the variable is a Dict of one entry more.
C29_Witness ==
  /\ WritesIntoDict
  /\ last.res.k = "Ok"
  /\ PositionIn(last.before).v = Number(I64(2))
  /\ "2" \notin DOMAIN Held(last.before, TargetName).d
  /\ Held(reg, TargetName).t = "Dict"
  /\ "2" \in DOMAIN Held(reg, TargetName).d

\* A loop of any form has been called and has come back.
LoopCalled ==
  /\ Done
  /\ last.stmt.k \in {"For", "While", "Repeat", "ForEach"}
  /\ last.res.k # "Running"

\* A foreach loop has bound its variable to an element at least once.
Iterated ==
  /\ Looped("ForEach")
  /\ Evaluations(last.log, "bind") # {}

\* The element of the last iteration a foreach loop began.
LastElement ==
  last.log[CHOOSE j \in Evaluations(last.log, "bind") :
             \A k \in Evaluations(last.log, "bind") : k <= j].res.v

\* The innermost frame of the register r.
Innermost(r) == r[Len(r)]

\* The innermost frame binds the loop variable to the value v.
LoopVariableIs(v) ==
  /\ last.stmt.variable.id \in DOMAIN Innermost(reg)
  /\ Innermost(reg)[last.stmt.variable.id] = ValueSlot(v)

\* C30 as claimed: no loop form pushes or pops a register frame, so the
\* number of frames after a loop equals the number before it, and after a
\* foreach over a non-empty sequence the loop variable is bound in the
\* innermost frame to the last element that was iterated.
C30_LoopsKeepFramesAndLastElement ==
  /\ LoopCalled => Len(reg) = Len(last.before)
  /\ Iterated => LoopVariableIs(LastElement)

\* C30 as the code has it: the number of frames after a loop equals the
\* number before it, and after a foreach over a non-empty sequence the loop
\* variable is bound to a value in the innermost frame: to the last element
\* that was iterated when the body holds no assignment to the loop variable.
C30_LoopsKeepFramesAndLoopVariable ==
  /\ LoopCalled => Len(reg) = Len(last.before)
  /\ Iterated =>
       /\ last.stmt.variable.id \in DOMAIN Innermost(reg)
       /\ Innermost(reg)[last.stmt.variable.id].c = "Value"
       /\ ~AssignsTo(last.stmt.body, last.stmt.variable.id) =>
            LoopVariableIs(LastElement)

\* Inside a call frame that did not bind i, while the root binds it, a
\* foreach over three elements has ended: the call frame binds i to the third
\* element and the root is as it was but for a.
C30_Witness ==
  /\ Iterated
  /\ Len(last.before) = 2
  /\ Len(reg) = 2
  /\ "i" \notin DOMAIN last.before[2]
  /\ Cardinality(Evaluations(last.log, "bind")) = 3
  /\ LoopVariableIs(Number(I64(4)))
  /\ reg[1]["i"] = last.before[1]["i"]

====
